---- MODULE Spec2Model ----
(***************************************************************************)
(* Bob-Lib: the annotated world view (BobMap) of src/src/enhanced_map,     *)
(* the search states of src/src/pathfinder.rs and the goal tracker of      *)
(* src/src/tracker.                                                        *)
(*                                                                         *)
(* BobMap keeps, per grid cell, the last observed tile and at most one     *)
(* pin, plus a reverse index pins_location from pin value to the list of   *)
(* coordinates at which that pin was added.  Node::successors expands one  *)
(* search state (cell, energy, rocks) into its neighbours.                 *)
(***************************************************************************)
EXTENDS Integers, Sequences, FiniteSets, TLC

VARIABLES
    world,          \* the host's discovered grid: robot_map(world)
    map,            \* BobMap.map: cell -> [tile, pin]
    pins_location,  \* BobMap.pins_location: HashMap from pin to Vec of cells
    last,           \* the last call and what it returned
    addLog,         \* history: the successful add_pin calls, in call order
    sweep,          \* auto_update in flight: its snapshot and row workers
    hostLog,        \* what the host answered to each call of the last wrapper
    pmap,           \* the tile grid handed to Node::successors
    req,            \* the path request: mode, relation (the f64 of num / den), start, target
    node,           \* the search state being expanded: Node(x, y, energy, rocks)
    route,          \* the edges taken from the start node, with their weights
    pstat,          \* "idle", "open", "asked", or how the search ended
    goals,          \* GoalTracker.goals: the Vec of goals, in insertion order
    completed_number \* GoalTracker.completed_number

mapVars == <<world, map, pins_location, last, addLog>>
pathVars == <<pmap, req, node, route, pstat>>
trackVars == <<goals, completed_number>>
vars == <<world, map, pins_location, last, addLog, sweep, hostLog,
          pmap, req, node, route, pstat, goals, completed_number>>

----------------------------------------------------------------------------
(* Bounds of the model. *)

\* The world has at most this many cells (every shape rows x cols within it).
MaxCells == 4
\* The same, for the worlds of the tile operations.
MaxTileCells == 2
\* At most this many successful add_pin calls (the index never shrinks).
MaxPins == 2
\* Longest observation batch handed to BobMap::update.
MaxBatch == 2
\* The same as MaxCells, for the worlds of a BobMap with pins and tiles.
MaxViewCells == 2
\* Most rows and most columns of the grid handed to the search.
PathRows == 3
PathCols == 4
\* Most edges of a route followed from the start node.
MaxDepth == 2
\* Most search states the search pops and expands before it is cut off.
MaxPops == 6
\* Most goals in the tracker.
MaxGoals == 2
\* The tracker is followed until completed_number reaches this count.
MaxCount == 3
\* Most rows, and most columns, of the strip one_direction_view returns.
MaxStrip == 2
\* The same as MaxCells, for the worlds swept by the row workers.
MaxSweepCells == 4

----------------------------------------------------------------------------
(* Values. *)

\* Option<Tile>::None; a Tile is copied whole, so it is modelled as a token.
NoTile == "None"
Tiles == {"Grass", "Street"}
TileOpt == Tiles \cup {NoTile}

\* Option<Arc<BobPinTypes>>::None.
NoPin == [kind |-> "None", val |-> 0, ptr |-> 0, vt |-> 0]

\* BobPinTypes: kind is the enum discriminant, val the carried value (for
\* Custom: the content of the payload).  A Custom pin holds an
\* Arc<dyn Any + Send + Sync>, a fat pointer: ptr is the address of the
\* payload's allocation and vt the address of the vtable the coercion to
\* dyn Any picked.  The compiler may emit the vtable of one type more than
\* once (per crate, per codegen unit), so which vt a coercion gets depends
\* on the build: it is an input, like ptr.
Pin(kind, val, ptr, vt) == [kind |-> kind, val |-> val, ptr |-> ptr, vt |-> vt]

\* The pins the calls are made with: a pin compared by value, and three
\* Custom pins.  The first two wrap distinct allocations holding identical
\* content; the third references the allocation of the first through a
\* coercion that got another vtable.
Pins ==
    { Pin("I32", 1, 0, 0),
      Pin("Custom", 7, 1, 0), Pin("Custom", 7, 2, 0), Pin("Custom", 7, 1, 1) }

Grid(rows, cols) == (0 .. rows - 1) \X (0 .. cols - 1)

\* The world sizes rows x cols of at most n cells.
ShapesUpTo(n) == { s \in (1 .. n) \X (1 .. n) : s[1] * s[2] <= n }

Cells == DOMAIN map

----------------------------------------------------------------------------
(* impl PartialEq / Hash for BobPinTypes. *)

\* eq: same variant and, variant by variant, equal values; two Custom pins
\* are compared by what Arc::as_ptr gives for the dyn payload, the address
\* of the allocation and the vtable pointer, not by the content.
PinEq(a, b) ==
    CASE a.kind = "Market" /\ b.kind = "Market" -> TRUE
      [] a.kind = "City" /\ b.kind = "City" -> TRUE
      [] a.kind = "I32" /\ b.kind = "I32" -> a.val = b.val
      [] a.kind = "String" /\ b.kind = "String" -> a.val = b.val
      [] a.kind = "TileType" /\ b.kind = "TileType" -> a.val = b.val
      [] a.kind = "Contents" /\ b.kind = "Contents" -> a.val = b.val
      [] a.kind = "Bank" /\ b.kind = "Bank" -> a.val = b.val
      [] a.kind = "Custom" /\ b.kind = "Custom" -> a.ptr = b.ptr /\ a.vt = b.vt
      [] OTHER -> FALSE

\* hash: the discriminant, then the value; for Custom the fat pointer of
\* the payload (address and vtable pointer).
PinHash(p) ==
    CASE p.kind \in {"City", "Market"} -> <<p.kind, 0>>
      [] p.kind = "Custom" -> <<p.kind, p.ptr, p.vt>>
      [] OTHER -> <<p.kind, p.val>>

----------------------------------------------------------------------------
(* HashMap<Arc<BobPinTypes>, Vec<(usize, usize)>>: a function from the     *)
(* stored keys to their lists; a key is found by hash and eq.              *)

KeyMatches(k, pin) == PinHash(k) = PinHash(pin) /\ PinEq(k, pin)

ContainsKey(idx, pin) == \E k \in DOMAIN idx : KeyMatches(k, pin)

StoredKey(idx, pin) == CHOOSE k \in DOMAIN idx : KeyMatches(k, pin)

\* add_pin's index update: push onto the key's list, or insert a new key.
IndexInsert(idx, pin, c) ==
    IF ContainsKey(idx, pin)
    THEN [idx EXCEPT ![StoredKey(idx, pin)] = Append(@, c)]
    ELSE [k \in DOMAIN idx \cup {pin} |-> IF k = pin THEN <<c>> ELSE idx[k]]

RECURSIVE SumLen(_, _)
SumLen(idx, keys) ==
    IF keys = {} THEN 0
    ELSE LET k == CHOOSE x \in keys : TRUE
         IN Len(idx[k]) + SumLen(idx, keys \ {k})

\* Number of coordinates stored in the index, over all keys.
IndexSize(idx) == SumLen(idx, DOMAIN idx)

----------------------------------------------------------------------------
(* BobMap. *)

Call(op, res) == [op |-> op, res |-> res]

\* BobMap::init: the tiles of the host's discovered grid, no pins.
BobMapInit(w) == [c \in DOMAIN w |-> [tile |-> w[c], pin |-> NoPin]]

\* get_pin
GetPin(c) == map[c].pin

\* search_pin on the index idx: the key's list, or PinNotFound.
SearchPinIn(idx, pin) ==
    IF ContainsKey(idx, pin)
    THEN [err |-> "None", locs |-> idx[StoredKey(idx, pin)]]
    ELSE [err |-> "PinNotFound", locs |-> <<>>]

\* search_pin
SearchPin(pin) == SearchPinIn(pins_location, pin)

\* An add_pin that does not look at the cell first.
AddPinUnchecked(pin, c) ==
    /\ c \in Cells
    /\ IndexSize(pins_location) < MaxPins
    /\ map' = [map EXCEPT ![c].pin = pin]
    /\ pins_location' = IndexInsert(pins_location, pin, c)
    /\ addLog' = Append(addLog, <<pin, c>>)
    /\ last' = Call("add_pin", "Ok")
    /\ UNCHANGED world

\* add_pin(pin, c)
AddPin(pin, c) ==
    /\ c \in Cells
    /\ IF map[c].pin # NoPin
       THEN /\ last' = Call("add_pin", "PinAlreadySet")
            /\ UNCHANGED <<world, map, pins_location, addLog>>
       ELSE /\ IndexSize(pins_location) < MaxPins
            /\ map' = [map EXCEPT ![c].pin = pin]
            /\ pins_location' = IndexInsert(pins_location, pin, c)
            /\ addLog' = Append(addLog, <<pin, c>>)
            /\ last' = Call("add_pin", "Ok")
            /\ UNCHANGED world

\* A delete_pin that reports success whatever the cell holds.
DeletePinAlwaysOk(c) ==
    /\ c \in Cells
    /\ map' = [map EXCEPT ![c].pin = NoPin]
    /\ last' = Call("delete_pin", "Ok")
    /\ UNCHANGED <<world, pins_location, addLog>>

\* A delete_pin that reports success and leaves the pin in place.
DeletePinKeepsPin(c) ==
    /\ c \in Cells
    /\ IF map[c].pin # NoPin
       THEN /\ last' = Call("delete_pin", "Ok")
            /\ UNCHANGED <<world, map, pins_location, addLog>>
       ELSE /\ last' = Call("delete_pin", "EmptyTile")
            /\ UNCHANGED <<world, map, pins_location, addLog>>

\* delete_pin(c): clears the cell's pin; pins_location is not touched.
DeletePin(c) ==
    /\ c \in Cells
    /\ IF map[c].pin # NoPin
       THEN /\ map' = [map EXCEPT ![c].pin = NoPin]
            /\ last' = Call("delete_pin", "Ok")
            /\ UNCHANGED <<world, pins_location, addLog>>
       ELSE /\ last' = Call("delete_pin", "EmptyTile")
            /\ UNCHANGED <<world, map, pins_location, addLog>>

\* The state after BobMap::init on a world whose host has discovered nothing.
\* No auto_update is in flight and no bob_* wrapper has been called.
NoSweep == [on |-> FALSE, snap |-> <<>>, before |-> <<>>, pos |-> <<>>]
\* GoalTracker::new(): no goal, none completed.
TrackerNew == goals = <<>> /\ completed_number = 0
MapIdle == sweep = NoSweep /\ hostLog = <<>> /\ TrackerNew

\* No path has been requested.
NoNode == [x |-> 0, y |-> 0, energy |-> 0, rocks |-> 0]
NoReq == [mode |-> "None", num |-> 0, den |-> 1]
PathIdle ==
    /\ pmap = <<>>
    /\ req = NoReq
    /\ node = NoNode
    /\ route = <<>>
    /\ pstat = "idle"

InitPins ==
    /\ \E s \in ShapesUpTo(MaxCells) : world = [c \in Grid(s[1], s[2]) |-> NoTile]
    /\ map = BobMapInit(world)
    /\ pins_location = <<>>
    /\ last = Call("init", "Ok")
    /\ addLog = <<>>
    /\ MapIdle
    /\ PathIdle

\* What a BobMap method leaves alone.
NoHostCall == UNCHANGED <<sweep, hostLog>> /\ UNCHANGED <<pathVars, trackVars>>

NextPins ==
    \/ \E pin \in Pins, c \in Cells : AddPin(pin, c) /\ NoHostCall
    \/ \E c \in Cells : DeletePin(c) /\ NoHostCall

\* The pin operations of a BobMap.
SpecPins == InitPins /\ [][NextPins]_vars

----------------------------------------------------------------------------
(* Tiles: observation batches and the resync from the host's grid. *)

\* The records of an observation batch: (x, y, tile), in range.
Records == { <<c[1], c[2], t>> : c \in Cells, t \in Tiles }

Batches == UNION { [1 .. n -> Records] : n \in 0 .. MaxBatch }

\* A write that rebuilds the cell and so drops its pin.
WrittenDroppingPin(m, r) ==
    [m EXCEPT ![<<r[1], r[2]>>] = [tile |-> r[3], pin |-> NoPin]]

\* The body of update's loop on the record r = (x, y, tile):
\* map[x][y].0 = Some(tile).
Written(m, r) == [m EXCEPT ![<<r[1], r[2]>>].tile = r[3]]

\* update's loop over a batch of in-range records.
RECURSIVE Updated(_, _)
Updated(m, batch) ==
    IF batch = <<>> THEN m
    ELSE Updated(Written(m, Head(batch)), Tail(batch))

\* An update that passes over a record out of range and carries on.
RECURSIVE UpdateRunSkipping(_, _)
UpdateRunSkipping(m, batch) ==
    IF batch = <<>> THEN [map |-> m, res |-> "Ok"]
    ELSE IF <<Head(batch)[1], Head(batch)[2]>> \in DOMAIN m
         THEN UpdateRunSkipping(Written(m, Head(batch)), Tail(batch))
         ELSE UpdateRunSkipping(m, Tail(batch))

\* update's loop over any batch: map[x][y] panics on the first record whose
\* row or column index lies outside the grid; the records before it are
\* written, the rest is never looked at.
RECURSIVE UpdateRun(_, _)
UpdateRun(m, batch) ==
    IF batch = <<>> THEN [map |-> m, res |-> "Ok"]
    ELSE IF <<Head(batch)[1], Head(batch)[2]>> \in DOMAIN m
         THEN UpdateRun(Written(m, Head(batch)), Tail(batch))
         ELSE [map |-> m, res |-> "panic"]

\* A resync that copies the host's cell whether or not the host knows it.
AutoUpdatedUnconditional(m, w) ==
    [c \in DOMAIN m |-> [m[c] EXCEPT !.tile = w[c]]]

\* A resync that rebuilds the cells it writes, without their pins.
AutoUpdatedDroppingPins(m, w) ==
    [c \in DOMAIN m |->
        IF w[c] # NoTile THEN [tile |-> w[c], pin |-> NoPin] ELSE m[c]]

\* auto_update: every cell whose host tile is known takes the host's tile;
\* the pins are not touched.  Each cell is written from the host's cell at
\* the same coordinate only, so the sweep's order does not matter.
AutoUpdated(m, w) ==
    [c \in DOMAIN m |->
        IF w[c] # NoTile THEN [m[c] EXCEPT !.tile = w[c]] ELSE m[c]]

\* The host discovers, changes or drops a tile of its own grid.
HostChange(c, t) ==
    /\ c \in Cells
    /\ t # world[c]
    /\ world' = [world EXCEPT ![c] = t]
    /\ last' = Call("host", "Ok")
    /\ UNCHANGED <<map, pins_location, addLog>>

\* update(coordinates)
Update(batch) ==
    /\ \E run \in {UpdateRun(map, batch)} :
          /\ map' = run.map
          /\ last' = Call("update", run.res)
    /\ UNCHANGED <<world, pins_location, addLog>>

\* A resync that sweeps row 0 only.
AutoUpdateFirstRow ==
    /\ map' = [c \in Cells |->
                 IF c[1] = 0 THEN AutoUpdated(map, world)[c] ELSE map[c]]
    /\ last' = Call("auto_update", "Ok")
    /\ UNCHANGED <<world, pins_location, addLog>>

\* auto_update(world), as get_map(world, TilesUpdated) runs it.
AutoUpdate ==
    /\ map' = AutoUpdated(map, world)
    /\ last' = Call("auto_update", "Ok")
    /\ UNCHANGED <<world, pins_location, addLog>>

\* The state after BobMap::init, whatever the host has discovered so far.
InitTiles ==
    /\ \E s \in ShapesUpTo(MaxTileCells) : world \in [Grid(s[1], s[2]) -> TileOpt]
    /\ map = BobMapInit(world)
    /\ pins_location = <<>>
    /\ last = Call("init", "Ok")
    /\ addLog = <<>>
    /\ MapIdle
    /\ PathIdle

NextTiles ==
    \/ \E c \in Cells, t \in TileOpt : HostChange(c, t) /\ NoHostCall
    \/ \E batch \in Batches : Update(batch) /\ NoHostCall
    \/ AutoUpdate /\ NoHostCall

\* The tile operations of a BobMap beside a host that changes its grid.
SpecTiles == InitTiles /\ [][NextTiles]_vars

----------------------------------------------------------------------------
(* auto_update as rayon runs it: par_iter_mut hands every row of the map   *)
(* to a worker; a worker walks its row cell by cell; the workers           *)
(* interleave in any order and for_each returns when all are done.         *)

\* The closure body on one cell: copy the snapshot's tile if it has one.
CellSyncedUnconditional(m, snap, c) == [m EXCEPT ![c].tile = snap[c]]
CellSynced(m, snap, c) ==
    IF snap[c] # NoTile THEN [m EXCEPT ![c].tile = snap[c]] ELSE m

RowsOf(m) == { c[1] : c \in DOMAIN m }
ColsOf(m) == { c[2] : c \in DOMAIN m }

\* auto_update takes its snapshot robot_map(world) and starts the workers.
BeginSweep ==
    /\ ~sweep.on
    /\ sweep' = [on |-> TRUE, snap |-> world, before |-> map,
                 pos |-> [i \in RowsOf(map) |-> 0]]
    /\ last' = Call("auto_update", "running")
    /\ UNCHANGED <<world, map, pins_location, addLog>>

\* The worker of row i handles its next cell.
WorkerStep(i) ==
    /\ sweep.on
    /\ i \in DOMAIN sweep.pos
    /\ sweep.pos[i] \in ColsOf(map)
    /\ map' = CellSynced(map, sweep.snap, <<i, sweep.pos[i]>>)
    /\ sweep' = [sweep EXCEPT !.pos[i] = @ + 1]
    /\ UNCHANGED <<world, pins_location, last, addLog>>

\* Every worker has walked its whole row: for_each and auto_update return.
\* sweep keeps what the call started from.
EndSweep ==
    /\ sweep.on
    /\ \A i \in DOMAIN sweep.pos : sweep.pos[i] \notin ColsOf(map)
    /\ sweep' = [sweep EXCEPT !.on = FALSE]
    /\ last' = Call("auto_update", "Ok")
    /\ UNCHANGED <<world, map, pins_location, addLog>>

\* A BobMap that has drifted from the host's grid in any way the tile
\* operations allow (every pair of host tile and stored tile is reachable
\* in SpecTiles), before a resync.
SweepTiles == {"Grass"}
InitResync ==
    /\ \E s \in ShapesUpTo(MaxSweepCells) :
          /\ world \in [Grid(s[1], s[2]) -> SweepTiles \cup {NoTile}]
          /\ map \in [Grid(s[1], s[2]) -> [tile : TileOpt, pin : {NoPin}]]
    /\ pins_location = <<>>
    /\ last = Call("update", "Ok")
    /\ addLog = <<>>
    /\ MapIdle
    /\ PathIdle

NextResync ==
    \/ BeginSweep /\ UNCHANGED hostLog /\ UNCHANGED <<pathVars, trackVars>>
    \/ \E i \in RowsOf(map) :
          WorkerStep(i) /\ UNCHANGED hostLog /\ UNCHANGED <<pathVars, trackVars>>
    \/ EndSweep /\ UNCHANGED hostLog /\ UNCHANGED <<pathVars, trackVars>>

\* The resync of a BobMap, row workers interleaved.
SpecResync == InitResync /\ [][NextResync]_vars

----------------------------------------------------------------------------
(* A BobMap with pins and tiles together: init, add_pin and update, the    *)
(* batches of update reaching past the grid.                               *)

\* A BobMap::init that takes the cells anew and keeps the old index.
BobInitKeepingIndex ==
    /\ map' = BobMapInit(world)
    /\ last' = Call("init", "Ok")
    /\ UNCHANGED <<world, pins_location, addLog>>

\* BobMap::init(world): a new BobMap replaces the old one.  addLog stays:
\* it is the history of the calls, not a field (SpecView stops adding pins
\* once it holds MaxPins calls).
BobInit ==
    /\ map' = BobMapInit(world)
    /\ pins_location' = <<>>
    /\ last' = Call("init", "Ok")
    /\ UNCHANGED <<world, addLog>>

ViewPins == { Pin("I32", 1, 0, 0) }

\* The coordinates one past the last row and one past the last column.
RowCount(m) == Cardinality(RowsOf(m))
ColCount(m) == Cardinality(ColsOf(m))
PastGrid == { <<RowCount(map), 0>>, <<0, ColCount(map)>> }
\* The tile of a record past the grid is never read: one tile stands for all.
ViewRecords ==
    { <<c[1], c[2], t>> : c \in Cells, t \in Tiles }
        \cup { <<c[1], c[2], "Grass">> : c \in PastGrid }
ViewBatches == UNION { [1 .. n -> ViewRecords] : n \in 0 .. MaxBatch }
InRange(batch) == \A i \in 1 .. Len(batch) : <<batch[i][1], batch[i][2]>> \in Cells

\* A panic ends the program.
Alive == last.res # "panic"

InitView ==
    /\ \E s \in ShapesUpTo(MaxViewCells) : world = [c \in Grid(s[1], s[2]) |-> NoTile]
    /\ map = BobMapInit(world)
    /\ pins_location = <<>>
    /\ last = Call("init", "Ok")
    /\ addLog = <<>>
    /\ MapIdle
    /\ PathIdle

NextView ==
    \/ \E pin \in ViewPins, c \in Cells :
          Alive /\ Len(addLog) < MaxPins /\ AddPin(pin, c) /\ NoHostCall
    \/ \E batch \in ViewBatches : Alive /\ Update(batch) /\ NoHostCall
    \/ Alive /\ BobInit /\ NoHostCall

\* A BobMap that is pinned, fed observations and built anew.
SpecView == InitView /\ [][NextView]_vars

----------------------------------------------------------------------------
(* get_map and init beside a host that changes its grid. *)

BobMapFlag == {"NoTileUpdated", "TilesUpdated"}

\* A get_map that resyncs whatever the flag says.
GetMapAlwaysResync(flag) ==
    /\ flag \in BobMapFlag
    /\ map' = AutoUpdated(map, world)
    /\ last' = Call(IF flag = "TilesUpdated" THEN "get_map(TilesUpdated)"
                                             ELSE "get_map(NoTileUpdated)", "Ok")
    /\ UNCHANGED <<world, pins_location, addLog>>

\* get_map(world, flag): auto_update first if the flag is TilesUpdated; the
\* grid returned is self.map as the call leaves it.
GetMap(flag) ==
    /\ flag \in BobMapFlag
    /\ map' = IF flag = "TilesUpdated" THEN AutoUpdated(map, world) ELSE map
    /\ last' = Call(IF flag = "TilesUpdated" THEN "get_map(TilesUpdated)"
                                             ELSE "get_map(NoTileUpdated)", "Ok")
    /\ UNCHANGED <<world, pins_location, addLog>>

NextGet ==
    \/ \E c \in Cells, t \in TileOpt : HostChange(c, t) /\ NoHostCall
    \/ \E flag \in BobMapFlag : GetMap(flag) /\ NoHostCall
    \/ BobInit /\ NoHostCall

\* A BobMap read through get_map and built anew while the host explores.
SpecGet == InitTiles /\ [][NextGet]_vars

----------------------------------------------------------------------------
(* The wrappers of the host's view calls: bob_one_direction_view and       *)
(* bob_discover_tiles ask the host, then feed what it saw to update.       *)

\* LibError values the host's calls fail with.
LibErrors == {"NotEnoughEnergy", "OutOfBounds", "NoMoreDiscovery"}

Directions == {"Up", "Down", "Left", "Right"}

\* What one_direction_view can answer: an error, or a strip of tiles of at
\* most MaxStrip rows and columns, of one kind of tile.
StripShapes == (1 .. MaxStrip) \X (1 .. MaxStrip)
Strips(rows, cols) == { [e \in Grid(rows, cols) |-> t] : t \in Tiles }
HostViews ==
    [err : LibErrors, view : {<<>>}]
        \cup UNION { [err : {"None"}, view : Strips(s[1], s[2])] : s \in StripShapes }

\* What discover_tiles can answer: an error, or a map from at most MaxBatch
\* coordinates of the world to the tiles found there (None where nothing is).
HostDiscoveries ==
    [err : LibErrors, found : {<<>>}]
        \cup UNION { [err : {"None"}, found : [cs -> TileOpt]] :
                        cs \in { d \in SUBSET Cells : Cardinality(d) <= MaxBatch } }

\* The coordinate bob_one_direction_view computes for entry (i, j) of the
\* strip, before any wrap: usize arithmetic, so a negative value here is a
\* subtraction that overflows.
ViewCoord(pos, dir, i, j) ==
    LET row == pos[1]
        col == pos[2]
        beside == IF col = 0 THEN col + j ELSE col - 1 + j
        along == IF row = 0 THEN row + i ELSE row - 1 + i
    IN CASE dir = "Up" -> <<row - 1 - i, beside>>
         [] dir = "Down" -> <<row + 1 + i, beside>>
         [] dir = "Left" -> <<along, col - 1 - j>>
         [] dir = "Right" -> <<along, col + 1 + j>>

\* The strip as update_vector lists it: row by row, entry by entry.  A
\* subtraction that overflowed has wrapped to a value near 2^64, far past
\* any grid; the negative number stands for it.
ViewVector(pos, dir, view) ==
    LET cols == ColCount(view)
        n == RowCount(view) * cols
    IN [k \in 1 .. n |->
          LET i == (k - 1) \div cols
              j == (k - 1) % cols
              c == ViewCoord(pos, dir, i, j)
          IN <<c[1], c[2], view[<<i, j>>]>>]

Overflows(vector) == \E k \in 1 .. Len(vector) : vector[k][1] < 0 \/ vector[k][2] < 0

\* A wrapper that asks the host a second time when the first call fails.
BobOneDirectionViewRetrying(pos, dir, host, checked) ==
    /\ pos \in Cells /\ dir \in Directions /\ host \in HostViews
    /\ hostLog' = IF host.err # "None" THEN <<host.err, host.err>> ELSE <<host.err>>
    /\ IF host.err # "None"
       THEN /\ last' = Call("bob_one_direction_view", host.err)
            /\ UNCHANGED <<world, map, pins_location, addLog>>
       ELSE LET vector == ViewVector(pos, dir, host.view)
                run == UpdateRun(map, vector)
            IN IF checked /\ Overflows(vector)
               THEN /\ last' = Call("bob_one_direction_view", "panic")
                    /\ UNCHANGED <<world, map, pins_location, addLog>>
               ELSE /\ map' = run.map
                    /\ last' = Call("bob_one_direction_view", run.res)
                    /\ UNCHANGED <<world, pins_location, addLog>>

\* bob_one_direction_view with the robot at pos; host is what
\* one_direction_view answers, checked says whether the build traps on
\* integer overflow (debug) or wraps (release).
BobOneDirectionView(pos, dir, host, checked) ==
    /\ pos \in Cells /\ dir \in Directions /\ host \in HostViews
    /\ hostLog' = <<host.err>>
    /\ IF host.err # "None"
       THEN /\ last' = Call("bob_one_direction_view", host.err)
            /\ UNCHANGED <<world, map, pins_location, addLog>>
       ELSE LET vector == ViewVector(pos, dir, host.view)
                run == UpdateRun(map, vector)
            IN IF checked /\ Overflows(vector)
               THEN /\ last' = Call("bob_one_direction_view", "panic")
                    /\ UNCHANGED <<world, map, pins_location, addLog>>
               ELSE /\ map' = run.map
                    /\ last' = Call("bob_one_direction_view", run.res)
                    /\ UNCHANGED <<world, pins_location, addLog>>

\* The Some entries of the host's answer, as the update vector.  The keys of
\* a HashMap are distinct, so the order of its iteration does not show in
\* what update writes; the vector is taken in one order.
RECURSIVE DiscoveredVector(_, _)
DiscoveredVector(found, cs) ==
    IF cs = {} THEN <<>>
    ELSE LET c == CHOOSE d \in cs : TRUE
             rest == DiscoveredVector(found, cs \ {c})
         IN IF found[c] # NoTile THEN <<<<c[1], c[2], found[c]>>>> \o rest
            ELSE rest

\* bob_discover_tiles; host is what discover_tiles answers.
BobDiscoverTiles(host) ==
    /\ host \in HostDiscoveries
    /\ hostLog' = <<host.err>>
    /\ IF host.err # "None"
       THEN /\ last' = Call("bob_discover_tiles", host.err)
            /\ UNCHANGED <<world, map, pins_location, addLog>>
       ELSE LET run == UpdateRun(map, DiscoveredVector(host.found, DOMAIN host.found))
            IN /\ map' = run.map
               /\ last' = Call("bob_discover_tiles", run.res)
               /\ UNCHANGED <<world, pins_location, addLog>>

NextIngest ==
    \/ \E pos \in Cells, dir \in Directions, host \in HostViews, checked \in BOOLEAN :
          /\ Alive
          /\ BobOneDirectionView(pos, dir, host, checked)
          /\ UNCHANGED sweep /\ UNCHANGED <<pathVars, trackVars>>
    \/ \E host \in HostDiscoveries :
          /\ Alive
          /\ BobDiscoverTiles(host)
          /\ UNCHANGED sweep /\ UNCHANGED <<pathVars, trackVars>>
    \/ \E pin \in ViewPins, c \in Cells :
          Alive /\ addLog = <<>> /\ AddPin(pin, c) /\ UNCHANGED sweep
                /\ UNCHANGED hostLog /\ UNCHANGED <<pathVars, trackVars>>

\* A BobMap, one cell of it pinned at most, fed through the wrappers of the
\* host's view calls.
SpecIngest == InitView /\ [][NextIngest]_vars

----------------------------------------------------------------------------
(* The search states of pathfinder.rs: Node(x, y, energy, rocks) and its   *)
(* successors over a grid of tiles.                                        *)

\* The tile types get_edge_cost tells apart; Street stands for every type it
\* answers None to.
TileTypes == {"Grass", "Sand", "Hill", "Snow", "ShallowWater", "DeepWater",
              "Lava", "Mountain", "Street"}

\* get_edge_cost: (energy cost, rocks delta) of stepping onto the type, or
\* None.
get_edge_cost(tile_type) ==
    CASE tile_type \in {"Grass", "Sand", "Hill", "Snow"} ->
            [some |-> TRUE, energy |-> 1, rocks |-> 1]
      [] tile_type = "ShallowWater" -> [some |-> TRUE, energy |-> 2, rocks |-> 2]
      [] tile_type = "DeepWater" -> [some |-> TRUE, energy |-> 6, rocks |-> 3]
      [] tile_type = "Lava" -> [some |-> TRUE, energy |-> 9, rocks |-> 3]
      [] tile_type = "Mountain" -> [some |-> TRUE, energy |-> 16, rocks |-> -4]
      [] OTHER -> [some |-> FALSE, energy |-> 0, rocks |-> 0]

\* The cap on rocks written into successors.
RocksCap == 20

\* usize::MAX, which a float too large for usize is cast to.  The number
\* stands for 2^64 - 1: the model's integers end at 2^31 - 1.
UsizeMax == 2147483647

BobMode == {"EnergySave", "MaterialSave", "AllOut"}

Min(a, b) == IF a <= b THEN a ELSE b

\* f64, the type of the relation and of every weight before its cast: an
\* IEEE 754 double, each operation rounded to nearest, ties to even: to 53
\* bits, to fewer where the result is subnormal (no bit below 2^-1074), and
\* to an infinity from 2^1024 on.


\* A mantissa is the pair <<hi, lo>> that stands for hi * 2^27 + lo.
B27 == 2 ^ 27

POdd(a) == a[2] % 2 = 1
PGe(a, b) == a[1] > b[1] \/ (a[1] = b[1] /\ a[2] >= b[2])
PAdd(a, b) == <<a[1] + b[1] + ((a[2] + b[2]) \div B27), (a[2] + b[2]) % B27>>
PSub(a, b) == IF a[2] >= b[2] THEN <<a[1] - b[1], a[2] - b[2]>> ELSE <<a[1] - b[1] - 1, a[2] + B27 - b[2]>>
PDbl(a) == <<2 * a[1] + ((2 * a[2]) \div B27), (2 * a[2]) % B27>>
PHalf(a) == <<a[1] \div 2, (a[1] % 2) * (B27 \div 2) + (a[2] \div 2)>>
PInc(a) == IF a[2] + 1 = B27 THEN <<a[1] + 1, 0>> ELSE <<a[1], a[2] + 1>>

\* The values of f64: a zero and an infinity of either sign, a finite
\* m * 2^e with m odd, below 2^53, and e from -1074 on, NaN.
F64Zero(neg) == [cls |-> "zero", neg |-> neg, m |-> <<0, 0>>, e |-> 0]
F64Inf(neg) == [cls |-> "inf", neg |-> neg, m |-> <<0, 0>>, e |-> 0]
F64NaN == [cls |-> "nan", neg |-> FALSE, m |-> <<0, 0>>, e |-> 0]

\* The mantissa shifted left to bits bits: <<mantissa, exponent>>.
RECURSIVE Widened(_, _, _)
Widened(m, e, bits) ==
    IF m[1] >= 2 ^ (bits - 28) THEN <<m, e>> ELSE Widened(PDbl(m), e - 1, bits)

\* The f64 of m * 2^e, m below 2^53 or 2^53 itself: an infinity from
\* 2^1024 on, which is 2^53 * 2^971.
RECURSIVE F64Odd(_, _, _)
F64Odd(neg, m, e) ==
    IF m = <<0, 0>> THEN F64Zero(neg)
    ELSE IF ~POdd(m) THEN F64Odd(neg, PHalf(m), e + 1)
    ELSE IF e > 918 /\ Widened(m, e, 53)[2] > 971 THEN F64Inf(neg)
    ELSE [cls |-> "fin", neg |-> neg, m |-> m, e |-> e]

\* What a right shift drops, against half a unit of the last place kept:
\* "none", "less", "half" or "more". Dropped takes the bit shifted out and
\* what was dropped below it.
Dropped(bit, below) ==
    IF below = "none" THEN (IF bit THEN "half" ELSE "none")
    ELSE (IF bit THEN "more" ELSE "less")

\* The exact value m * 2^e plus what was dropped below it, rounded to 53
\* bits and to no bit below 2^-1074, ties to even.
RECURSIVE F64Rounded(_, _, _, _)
F64Rounded(neg, m, e, below) ==
    IF m[1] >= 2 ^ 26 \/ (e < -1074 /\ m # <<0, 0>>)
    THEN F64Rounded(neg, PHalf(m), e + 1, Dropped(POdd(m), below))
    ELSE IF e < -1074 THEN F64Zero(neg)
    ELSE IF below = "more" \/ (below = "half" /\ POdd(m)) THEN F64Odd(neg, PInc(m), e)
    ELSE F64Odd(neg, m, e)

\* n as f64, exact for the integers of the model.
F64FromInt(n) ==
    IF n < 0 THEN F64Odd(TRUE, <<(-n) \div B27, (-n) % B27>>, 0)
    ELSE F64Odd(FALSE, <<n \div B27, n % B27>>, 0)

\* The quotient of two 53-bit mantissas, bit by bit: s is <<remainder,
\* quotient>>, k the bits still to come.
RECURSIVE DivBits(_, _, _)
DivBits(s, b, k) ==
    IF k = 0 THEN s
    ELSE IF PGe(s[1], b) THEN DivBits(<<PDbl(PSub(s[1], b)), PInc(PDbl(s[2]))>>, b, k - 1)
    ELSE DivBits(<<PDbl(s[1]), PDbl(s[2])>>, b, k - 1)

\* a / b
F64Div(a, b) ==
    CASE a.cls = "nan" \/ b.cls = "nan" -> F64NaN
      [] a.cls = "inf" -> IF b.cls = "inf" THEN F64NaN ELSE F64Inf(a.neg # b.neg)
      [] b.cls = "inf" -> F64Zero(a.neg # b.neg)
      [] b.cls = "zero" -> IF a.cls = "zero" THEN F64NaN ELSE F64Inf(a.neg # b.neg)
      [] a.cls = "zero" -> F64Zero(a.neg # b.neg)
      [] b.m = <<0, 1>> -> F64Rounded(a.neg # b.neg, a.m, a.e - b.e, "none")
      [] OTHER ->
            LET wa == Widened(a.m, a.e, 53)
                wb == Widened(b.m, b.e, 53)
                rq == DivBits(<<wa[1], <<0, 0>>>>, wb[1], 55)
                below == IF rq[1] = <<0, 0>> THEN "none" ELSE "less"
            IN F64Rounded(a.neg # b.neg, rq[2], wa[2] - wb[2] - 54, below)

\* The product of the mantissas a (54 bits) and b, the lowest bit of b first:
\* the sum is shifted right after each bit. s is <<sum, shifts, below>>.
RECURSIVE MulBits(_, _, _)
MulBits(a, b, s) ==
    IF b = <<0, 0>> THEN s
    ELSE LET sum == IF POdd(b) THEN PAdd(s[1], a) ELSE s[1]
         IN IF POdd(sum) THEN MulBits(a, PHalf(b), <<PHalf(sum), s[2] + 1, Dropped(TRUE, s[3])>>)
            ELSE MulBits(a, PHalf(b), <<PHalf(sum), s[2] + 1, Dropped(FALSE, s[3])>>)

\* a * b
F64Mul(a, b) ==
    CASE a.cls = "nan" \/ b.cls = "nan" -> F64NaN
      [] a.cls = "inf" -> IF b.cls = "zero" THEN F64NaN ELSE F64Inf(a.neg # b.neg)
      [] b.cls = "inf" -> IF a.cls = "zero" THEN F64NaN ELSE F64Inf(a.neg # b.neg)
      [] a.cls = "zero" \/ b.cls = "zero" -> F64Zero(a.neg # b.neg)
      [] a.m = <<0, 1>> -> F64Rounded(a.neg # b.neg, b.m, a.e + b.e, "none")
      [] b.m = <<0, 1>> -> F64Rounded(a.neg # b.neg, a.m, a.e + b.e, "none")
      [] OTHER ->
            LET wa == Widened(a.m, a.e, 54)
                p == MulBits(wa[1], b.m, <<<<0, 0>>, 0, "none">>)
            IN F64Rounded(a.neg # b.neg, p[1], wa[2] + b.e + p[2], p[3])

\* The mantissa shifted right by k bits.
RECURSIVE Shifted(_, _)
Shifted(m, k) == IF k = 0 \/ m = <<0, 0>> THEN m ELSE Shifted(PHalf(m), k - 1)

\* |x|.round(), halves away from zero, as an integer; an infinity, and every
\* value from 2^31 on (the model has no integer above), is usize::MAX.
RoundedMagnitude(x) ==
    CASE x.cls = "inf" -> UsizeMax
      [] x.cls = "fin" /\ x.e >= 0 ->
            LET v == x.m[1] * B27 + x.m[2]
            IN IF x.m[1] >= 16 \/ x.e >= 31 THEN UsizeMax
               ELSE IF x.e = 0 THEN v
               ELSE IF v >= 2 ^ (31 - x.e) THEN UsizeMax
               ELSE v * 2 ^ x.e
      [] x.cls = "fin" /\ x.e < 0 ->
            LET t == Shifted(x.m, (-x.e) - 1)
                r == IF POdd(t) THEN PInc(PHalf(t)) ELSE PHalf(t)
            IN IF r[1] >= 16 THEN UsizeMax ELSE r[1] * B27 + r[2]
      [] OTHER -> 0

\* x.round() with the cast to usize left out: the rounded value keeps its
\* sign.
RoundedSigned(x) == IF x.neg THEN -RoundedMagnitude(x) ELSE RoundedMagnitude(x)

\* x.round() as usize: the cast sends a negative value and NaN to 0 and
\* saturates at usize::MAX.
RoundedAsUsize(x) == IF x.neg THEN 0 ELSE RoundedMagnitude(x)

\* The f64 of the literal num / den.
F64Ratio(num, den) == F64Div(F64FromInt(num), F64FromInt(den))

\* (cost.0 as f64 * relation).round() as usize
cost_energy(cost, relation) == RoundedAsUsize(F64Mul(F64FromInt(cost.energy), relation))

\* (cost.1 as f64 / relation).round() as usize
cost_material(cost, relation) == RoundedAsUsize(F64Div(F64FromInt(cost.rocks), relation))

\* The weight of the edge under the mode.
EdgeWeight(cost, mode, relation) ==
    CASE mode = "EnergySave" -> cost_energy(cost, relation)
      [] mode = "MaterialSave" -> cost_material(cost, relation)
      [] mode = "AllOut" -> cost_energy(cost, relation) + cost_material(cost, relation)

\* The four blocks of successors, in their order: the cell each one reads.
Moves == << [dir |-> "up", dx |-> 0, dy |-> 1],
            [dir |-> "down", dx |-> 0, dy |-> -1],
            [dir |-> "left", dx |-> -1, dy |-> 0],
            [dir |-> "right", dx |-> 1, dy |-> 0] >>

Neighbour(n, mv) == <<n.x + mv.dx, n.y + mv.dy>>

\* successors indexes map[x][y + 1], map[x][y - 1], map[x - 1][y] and
\* map[x + 1][y] unguarded: a cell outside the grid is an index (or a usize
\* subtraction) that panics.
Traps(n, m) == \E k \in DOMAIN Moves : Neighbour(n, Moves[k]) \notin DOMAIN m

\* A block that yields the edge whatever the neighbour holds.
BlockOntoAnything(n, m, mv, mode, relation) ==
    LET c == Neighbour(n, mv)
        cost == get_edge_cost(m[c])
    IN << [node |-> [x |-> c[1], y |-> c[2],
                     energy |-> n.energy - cost.energy,
                     rocks |-> Min(n.rocks - cost.rocks, RocksCap)],
           weight |-> EdgeWeight(cost, mode, relation),
           dir |-> mv.dir] >>

\* One block of successors: the edge to the neighbour, if its tile is known
\* and get_edge_cost prices it.
Block(n, m, mv, mode, relation) ==
    LET c == Neighbour(n, mv)
        cost == get_edge_cost(m[c])
    IN IF m[c] # NoTile /\ cost.some
       THEN << [node |-> [x |-> c[1], y |-> c[2],
                          energy |-> n.energy - cost.energy,
                          rocks |-> Min(n.rocks - cost.rocks, RocksCap)],
                weight |-> EdgeWeight(cost, mode, relation),
                dir |-> mv.dir] >>
       ELSE <<>>

\* Node::successors on a node none of whose neighbours is outside the grid.
successors(n, m, mode, relation) ==
    Block(n, m, Moves[1], mode, relation) \o Block(n, m, Moves[2], mode, relation)
        \o Block(n, m, Moves[3], mode, relation) \o Block(n, m, Moves[4], mode, relation)

\* The search takes the i-th edge out of the node it stands on.
Expand(i) ==
    /\ pstat = "open"
    /\ Len(route) < MaxDepth
    /\ ~Traps(node, pmap)
    /\ LET succ == successors(node, pmap, req.mode, req.relation)
       IN /\ i \in DOMAIN succ
          /\ node' = succ[i].node
          /\ route' = Append(route, [dir |-> succ[i].dir, weight |-> succ[i].weight])
    /\ UNCHANGED <<pmap, req, pstat>>

\* successors panics on the node the search stands on.
Trap ==
    /\ pstat = "open"
    /\ Traps(node, pmap)
    /\ pstat' = "panic"
    /\ UNCHANGED <<pmap, req, node, route>>

\* The grids of the search: each row of one kind of tile, or unknown.
PathKinds == {NoTile, "Street", "Grass", "Mountain"}
PathShapes == (1 .. PathRows) \X (1 .. PathCols)
PathMaps ==
    UNION { { [c \in Grid(s[1], s[2]) |-> byRow[c[1]]] :
                byRow \in [0 .. s[1] - 1 -> PathKinds] } : s \in PathShapes }

\* The relations of the requests, each the f64 of the literal num / den,
\* which f64 holds exactly.
Relations == { <<0, 1>>, <<1, 2>>, <<1, 1>>, <<2, 1>> }

\* Energy and rocks of the start node.
Budgets == { <<0, 8>>, <<20, 0>>, <<20, 8>>, <<20, 18>> }

InitSucc ==
    /\ pmap \in PathMaps
    /\ \E mode \in BobMode, r \in Relations :
          req = [mode |-> mode, num |-> r[1], den |-> r[2],
                 relation |-> F64Ratio(r[1], r[2])]
    /\ \E c \in DOMAIN pmap, b \in Budgets :
          node = [x |-> c[1], y |-> c[2], energy |-> b[1], rocks |-> b[2]]
    /\ route = <<>>
    /\ pstat = "open"
    /\ world = <<>>
    /\ map = <<>>
    /\ pins_location = <<>>
    /\ last = Call("init", "Ok")
    /\ addLog = <<>>
    /\ MapIdle

NextSucc ==
    \/ \E i \in 1 .. 4 : Expand(i) /\ UNCHANGED mapVars /\ UNCHANGED <<sweep, hostLog, trackVars>>
    \/ Trap /\ UNCHANGED mapVars /\ UNCHANGED <<sweep, hostLog, trackVars>>

\* Every search state a run of successors can reach from the start node.
SpecSucc == InitSucc /\ [][NextSucc]_vars

----------------------------------------------------------------------------
(* The edges of successors, one terrain at a time: the node in the middle  *)
(* of a grid of three rows and three columns, each row of one tile type,   *)
(* so that the four neighbours carry every tile type in turn.              *)

EdgeMaps ==
    { [c \in Grid(3, 3) |-> byRow[c[1]]] :
        byRow \in [0 .. 2 -> TileTypes \cup {NoTile}] }

InitEdge ==
    /\ pmap \in EdgeMaps
    /\ \E mode \in BobMode, r \in Relations :
          req = [mode |-> mode, num |-> r[1], den |-> r[2],
                 relation |-> F64Ratio(r[1], r[2])]
    /\ node = [x |-> 1, y |-> 1, energy |-> 20, rocks |-> 8]
    /\ route = <<>>
    /\ pstat = "open"
    /\ world = <<>>
    /\ map = <<>>
    /\ pins_location = <<>>
    /\ last = Call("init", "Ok")
    /\ addLog = <<>>
    /\ MapIdle

\* Every edge successors yields out of an inner node, for every terrain next
\* to it.
SpecEdge == InitEdge /\ [][NextSucc]_vars

----------------------------------------------------------------------------
(* The search over successors: pathfinder.rs imports dijkstra and leaves   *)
(* its call in a comment (line 127), so the search itself is taken from    *)
(* section 4.3 of the specification: a frontier ordered by cost, the       *)
(* target test on the popped state, Unreachable on an empty frontier.      *)

\* The sum of two costs in usize, wrapped around when it passes usize::MAX.
AddCost(a, b) ==
    IF a > UsizeMax - b THEN a - (UsizeMax - b) - 1 ELSE a + b

\* Adding the weight of one of the edges to the cost so far overflows.
Overflowing(e, succ) ==
    \E k \in DOMAIN succ : e.cost > UsizeMax - succ[k].weight

\* The frontier entries of the edges out of a popped entry, in the order
\* successors returns them.
Pushed(e, succ) ==
    [k \in DOMAIN succ |->
        [node |-> succ[k].node,
         cost |-> AddCost(e.cost, succ[k].weight),
         path |-> Append(e.path, [dir |-> succ[k].dir, weight |-> succ[k].weight])]]

\* The entry the frontier pops: the earliest pushed among the cheapest.
Cheapest(frontier) ==
    CHOOSE i \in DOMAIN frontier :
        /\ \A j \in DOMAIN frontier : frontier[i].cost <= frontier[j].cost
        /\ \A j \in 1 .. i - 1 : frontier[j].cost > frontier[i].cost

Without(frontier, i) ==
    SubSeq(frontier, 1, i - 1) \o SubSeq(frontier, i + 1, Len(frontier))

\* The search from the frontier on, closed being the states expanded so
\* far and fuel the pops it is still followed for.  A sum of costs that
\* overflows panics in a build with overflow checks and wraps in one
\* without.
RECURSIVE dijkstra(_, _, _, _)
dijkstra(frontier, closed, fuel, checked) ==
    IF frontier = <<>>
    THEN [stat |-> "Unreachable", node |-> req.start, route |-> <<>>]
    ELSE LET i == Cheapest(frontier)
             e == frontier[i]
         IN IF e.node \in closed
            THEN dijkstra(Without(frontier, i), closed, fuel, checked)
            ELSE IF <<e.node.x, e.node.y>> = req.target
            THEN [stat |-> "found", node |-> e.node, route |-> e.path]
            ELSE IF fuel = 0
            THEN [stat |-> "unfinished", node |-> e.node, route |-> e.path]
            ELSE IF Traps(e.node, pmap)
            THEN [stat |-> "panic", node |-> e.node, route |-> e.path]
            ELSE IF checked /\ Overflowing(e, successors(e.node, pmap, req.mode,
                                                          req.relation))
            THEN [stat |-> "panic", node |-> e.node, route |-> e.path]
            ELSE dijkstra(
                   Without(frontier, i)
                       \o Pushed(e, successors(e.node, pmap, req.mode, req.relation)),
                   closed \cup {e.node},
                   fuel - 1,
                   checked)

\* A path request runs to its end.
FindPath(checked) ==
    /\ pstat = "asked"
    /\ \E run \in { dijkstra(<< [node |-> req.start, cost |-> 0, path |-> <<>>] >>,
                             {}, MaxPops, checked) } :
          /\ pstat' = run.stat
          /\ node' = run.node
          /\ route' = run.route
    /\ UNCHANGED <<pmap, req>>

\* The grids of the requests: a field of one kind of tile inside a rim,
\* one cell wide, of another.
OnRim(c, s) == c[1] \in {0, s[1] - 1} \/ c[2] \in {0, s[2] - 1}
SearchMaps ==
    UNION { { [c \in Grid(s[1], s[2]) |-> IF OnRim(c, s) THEN rim ELSE field] :
                rim \in PathKinds, field \in PathKinds } : s \in PathShapes }

\* Energy and rocks at the start: budgets that pay for one step at most,
\* and on the grids that are all rim the budget 10, 10 as well.
SearchBudgets(m) ==
    { <<0, 8>>, <<1, 1>> }
        \cup (IF \A c \in DOMAIN m : Traps([x |-> c[1], y |-> c[2]], m)
              THEN { <<10, 10>> } ELSE {})

InitSearch ==
    /\ pmap \in SearchMaps
    /\ \E mode \in BobMode, r \in Relations, c \in DOMAIN pmap, t \in DOMAIN pmap :
          \E b \in SearchBudgets(pmap) :
              req = [mode |-> mode, num |-> r[1], den |-> r[2],
                     relation |-> F64Ratio(r[1], r[2]),
                     start |-> [x |-> c[1], y |-> c[2], energy |-> b[1], rocks |-> b[2]],
                     target |-> t]
    /\ node = req.start
    /\ route = <<>>
    /\ pstat = "asked"
    /\ world = <<>>
    /\ map = <<>>
    /\ pins_location = <<>>
    /\ last = Call("init", "Ok")
    /\ addLog = <<>>
    /\ MapIdle

NextSearch ==
    \E checked \in BOOLEAN :
        FindPath(checked) /\ UNCHANGED mapVars /\ UNCHANGED <<sweep, hostLog, trackVars>>

\* Every path request on every grid, and its result.
SpecSearch == InitSearch /\ [][NextSearch]_vars

----------------------------------------------------------------------------
(* costs_relation of lib/utils: the relation of a path request, computed   *)
(* from the budgets and the divider, all three of them f64.                *)

\* costs_relation dividing by materials * divider.
costs_relationTimesDivider(energy, materials, divider) ==
    IF materials = 0 \/ energy = 0 THEN F64Zero(FALSE)
    ELSE F64Div(F64FromInt(energy), F64Mul(F64FromInt(materials), divider))

\* costs_relation: 0.0 when either budget is 0, en / (mat / divider)
\* otherwise, en and mat the budgets as f64: two divisions, each rounded.
costs_relation(energy, materials, divider) ==
    IF materials = 0 \/ energy = 0 THEN F64Zero(FALSE)
    ELSE F64Div(F64FromInt(energy), F64Div(F64FromInt(materials), divider))

\* The relation of the request is computed from its budgets.
CostsRelation ==
    /\ pstat = "asked"
    /\ req' = [req EXCEPT !.relation =
                  costs_relation(req.energy, req.materials, F64Ratio(req.dnum, req.dden))]
    /\ pstat' = "related"
    /\ UNCHANGED <<pmap, node, route>>

\* The budgets and the dividers of the requests, a divider the f64 of the
\* literal dnum / dden: quotients that f64 holds exactly (20 / (10 / 2)) and
\* quotients it rounds (4 / (75 / 0.5), 35 / (14 / 3)), of either sign.
BudgetValues == {0, 1, 3, 4, 10, 14, 20, 35, 75}
Dividers == { <<1, 2>>, <<1, 1>>, <<2, 1>>, <<3, 1>>, <<4, 1>>, <<-2, 1>> }

InitRatio ==
    /\ \E e \in BudgetValues, m \in BudgetValues, d \in Dividers :
          req = [energy |-> e, materials |-> m, dnum |-> d[1], dden |-> d[2],
                 relation |-> F64NaN]
    /\ pmap = <<>>
    /\ node = NoNode
    /\ route = <<>>
    /\ pstat = "asked"
    /\ world = <<>>
    /\ map = <<>>
    /\ pins_location = <<>>
    /\ last = Call("init", "Ok")
    /\ addLog = <<>>
    /\ MapIdle

NextRatio ==
    CostsRelation /\ UNCHANGED mapVars /\ UNCHANGED <<sweep, hostLog, trackVars>>

\* Every call of costs_relation.
SpecRatio == InitRatio /\ [][NextRatio]_vars

----------------------------------------------------------------------------
(* The goal tracker of tracker/mod.rs: a Vec of goals and the count of the *)
(* completed ones.                                                         *)

GoalType == {"PutOutFire", "GetItems", "SellItems", "ThrowGarbage"}

\* Option<Content>: a Content is its variant and the quantity it carries.
Absent == [some |-> FALSE, variant |-> "", qty |-> 0]
Some(variant, qty) == [some |-> TRUE, variant |-> variant, qty |-> qty]

\* A comparison of the whole contents, quantities included.
match_content_type_variantWithQuantity(lhs, rhs) ==
    lhs.some /\ rhs.some /\ lhs = rhs

\* match_content_type_variant: both present and of the same variant
\* (discriminant), whatever the variants carry.
match_content_type_variant(lhs, rhs) ==
    lhs.some /\ rhs.some /\ lhs.variant = rhs.variant

\* Goal::new (the description, which nothing reads, is left out).
GoalNew(name, goal_type, item_type, goal_quantity) ==
    [name |-> name, goal_type |-> goal_type, item_type |-> item_type,
     completed |-> FALSE, goal_quantity |-> goal_quantity,
     items_left |-> goal_quantity]

\* u32::MAX, which a u32 subtraction below 0 wraps around.  The number
\* stands for 2^32 - 1: the model's integers end at 2^31 - 1.
U32Max == 2147483647

\* A call of the tracker and what it answered; quantity is the number of
\* items the call was about (0 where it has none).
TrackerCall(op, res, goal_type, item_type, quantity) ==
    [op |-> op, res |-> res, goal_type |-> goal_type, item_type |-> item_type,
     quantity |-> quantity]

\* The index of the last goal of the type whose item has the variant, or 0.
FindLastGoal(gs, goal_type, item_type) ==
    LET hits == { i \in DOMAIN gs :
                    /\ gs[i].goal_type = goal_type
                    /\ match_content_type_variant(gs[i].item_type, item_type) }
    IN IF hits = {} THEN 0 ELSE CHOOSE i \in hits : \A j \in hits : j <= i

\* iter_mut().find(..): the index of the first goal of the type whose item
\* has the variant, or 0 when there is none.
FindGoal(gs, goal_type, item_type) ==
    LET hits == { i \in DOMAIN gs :
                    /\ gs[i].goal_type = goal_type
                    /\ match_content_type_variant(gs[i].item_type, item_type) }
    IN IF hits = {} THEN 0 ELSE CHOOSE i \in hits : \A j \in hits : i <= j

\* The tracker has not panicked, and is followed until the items_left of
\* a goal has wrapped around.
Tracking ==
    /\ last.res # "panic"
    /\ \A i \in DOMAIN goals : goals[i].items_left <= goals[i].goal_quantity

\* add_goal
AddGoal(goal) ==
    /\ goals' = Append(goals, goal)
    /\ last' = TrackerCall("add_goal", "Ok", goal.goal_type, goal.item_type, 0)
    /\ UNCHANGED completed_number

\* remove_goal: the first goal of the name leaves the Vec; a completed one
\* is taken off the count, a usize subtraction.
RemoveGoal(goal_name, checked) ==
    LET hits == { i \in DOMAIN goals : goals[i].name = goal_name }
    IN IF hits = {}
       THEN /\ last' = TrackerCall("remove_goal", "None", "", Absent, 0)
            /\ UNCHANGED <<goals, completed_number>>
       ELSE LET index == CHOOSE i \in hits : \A j \in hits : i <= j
                removed_goal == goals[index]
            IN /\ goals' = SubSeq(goals, 1, index - 1)
                               \o SubSeq(goals, index + 1, Len(goals))
               /\ IF ~removed_goal.completed
                  THEN /\ UNCHANGED completed_number
                       /\ last' = TrackerCall("remove_goal", "Some",
                                              removed_goal.goal_type,
                                              removed_goal.item_type, 0)
                  ELSE IF completed_number > 0
                  THEN /\ completed_number' = completed_number - 1
                       /\ last' = TrackerCall("remove_goal", "Some",
                                              removed_goal.goal_type,
                                              removed_goal.item_type, 0)
                  ELSE IF checked
                  THEN /\ UNCHANGED completed_number
                       /\ last' = TrackerCall("remove_goal", "panic",
                                              removed_goal.goal_type,
                                              removed_goal.item_type, 0)
                  ELSE /\ completed_number' = UsizeMax
                       /\ last' = TrackerCall("remove_goal", "Some",
                                              removed_goal.goal_type,
                                              removed_goal.item_type, 0)

\* clean_completed_goals: retain the goals that are not completed.
CleanCompletedGoals ==
    /\ goals' = SelectSeq(goals, LAMBDA g : ~g.completed)
    /\ last' = TrackerCall("clean_completed_goals", "Ok", "", Absent, 0)
    /\ UNCHANGED completed_number

\* GoalTracker::update changing the last goal that matches.
TrackerUpdateLast(result, rhs_goal_type, rhs_item_type, removed_quantity, checked) ==
    LET i == FindLastGoal(goals, rhs_goal_type, rhs_item_type)
    IN IF result # "Ok"
       THEN /\ last' = TrackerCall("update", "Err", rhs_goal_type,
                            rhs_item_type, removed_quantity)
            /\ UNCHANGED <<goals, completed_number>>
       ELSE IF i = 0
       THEN /\ last' = TrackerCall("update", "NotFound", rhs_goal_type,
                            rhs_item_type, removed_quantity)
            /\ UNCHANGED <<goals, completed_number>>
       ELSE IF goals[i].items_left < removed_quantity /\ checked
       THEN /\ last' = TrackerCall("update", "panic", rhs_goal_type,
                            rhs_item_type, removed_quantity)
            /\ UNCHANGED <<goals, completed_number>>
       ELSE LET left == IF goals[i].items_left < removed_quantity
                        THEN U32Max - (removed_quantity - goals[i].items_left - 1)
                        ELSE goals[i].items_left - removed_quantity
            IN /\ goals' = [goals EXCEPT ![i].items_left = left,
                                         ![i].completed = @ \/ left = 0]
               /\ completed_number' =
                     IF left = 0 THEN completed_number + 1 ELSE completed_number
               /\ last' = TrackerCall("update", "Ok", rhs_goal_type,
                            rhs_item_type, removed_quantity)

\* What GoalTracker::update does to the goals gs and their count: after
\* an action the host accepted, the first goal of the type and variant
\* loses removed_quantity items, a u32 subtraction (it panics below 0 in a
\* build with overflow checks and wraps in one without); left with 0 items
\* the goal is completed and counted.
GoalsUpdated(gs, count, result, rhs_goal_type, rhs_item_type, removed_quantity, checked) ==
    LET i == FindGoal(gs, rhs_goal_type, rhs_item_type)
    IN IF result # "Ok"
       THEN [goals |-> gs, completed_number |-> count, res |-> "Err"]
       ELSE IF i = 0
       THEN [goals |-> gs, completed_number |-> count, res |-> "NotFound"]
       ELSE IF gs[i].items_left < removed_quantity /\ checked
       THEN [goals |-> gs, completed_number |-> count, res |-> "panic"]
       ELSE LET left == IF gs[i].items_left < removed_quantity
                        THEN U32Max - (removed_quantity - gs[i].items_left - 1)
                        ELSE gs[i].items_left - removed_quantity
            IN [goals |-> [gs EXCEPT ![i].items_left = left,
                                     ![i].completed = @ \/ left = 0],
                completed_number |-> IF left = 0 THEN count + 1 ELSE count,
                res |-> "Ok"]

\* GoalTracker::update on the tracker.
TrackerUpdate(result, rhs_goal_type, rhs_item_type, removed_quantity, checked) ==
    \E run \in { GoalsUpdated(goals, completed_number, result, rhs_goal_type,
                              rhs_item_type, removed_quantity, checked) } :
       /\ goals' = run.goals
       /\ completed_number' = run.completed_number
       /\ last' = TrackerCall("update", run.res, rhs_goal_type, rhs_item_type,
                              removed_quantity)

\* update_manual: the first goal of the type and variant loses
\* removed_quantity items, staying at 0 (update_progress); a goal with no
\* item left is counted.
UpdateManual(goal_type, item_type, removed_quantity) ==
    LET i == FindGoal(goals, goal_type, item_type)
    IN IF i = 0
       THEN /\ last' = TrackerCall("update_manual", "NotFound", goal_type,
                            item_type, removed_quantity)
            /\ UNCHANGED <<goals, completed_number>>
       ELSE LET left == IF goals[i].items_left < removed_quantity
                        THEN 0 ELSE goals[i].items_left - removed_quantity
            IN /\ goals' = [goals EXCEPT ![i].items_left = left,
                                         ![i].completed = @ \/ left = 0]
               /\ completed_number' =
                     IF left = 0 THEN completed_number + 1 ELSE completed_number
               /\ last' = TrackerCall("update_manual", "Ok", goal_type,
                            item_type, removed_quantity)

\* The goals handed to add_goal, the names handed to remove_goal and the
\* arguments of the updates.
NewGoals ==
    { GoalNew("a", "GetItems", Some("Rock", 1), 2),
      GoalNew("b", "GetItems", Some("Rock", 5), 1),
      GoalNew("a", "SellItems", Some("Tree", 1), 0),
      GoalNew("c", "GetItems", Absent, 1) }
GoalNames == {"a", "b", "z"}
UpdateTypes == {"GetItems", "SellItems"}
UpdateItems == { Some("Rock", 0), Some("Tree", 0), Absent }
Quantities == {0, 1, 3}
Results == {"Ok", "OperationNotAllowed"}

InitTracker ==
    /\ TrackerNew
    /\ last = TrackerCall("new", "Ok", "", Absent, 0)
    /\ world = <<>>
    /\ map = <<>>
    /\ pins_location = <<>>
    /\ addLog = <<>>
    /\ sweep = NoSweep
    /\ hostLog = <<>>
    /\ PathIdle

TrackerFrame == UNCHANGED <<world, map, pins_location, addLog, sweep, hostLog>>
                    /\ UNCHANGED pathVars

NextTracker ==
    \/ \E goal \in NewGoals :
          Tracking /\ Len(goals) < MaxGoals /\ AddGoal(goal) /\ TrackerFrame
    \/ \E name \in GoalNames, checked \in BOOLEAN :
          Tracking /\ RemoveGoal(name, checked) /\ TrackerFrame
    \/ Tracking /\ CleanCompletedGoals /\ TrackerFrame
    \/ \E result \in Results, t \in UpdateTypes, item \in UpdateItems,
          q \in Quantities, checked \in BOOLEAN :
          /\ Tracking /\ completed_number < MaxCount
          /\ TrackerUpdate(result, t, item, q, checked) /\ TrackerFrame
    \/ \E t \in UpdateTypes, item \in UpdateItems, q \in Quantities :
          /\ Tracking /\ completed_number < MaxCount
          /\ UpdateManual(t, item, q) /\ TrackerFrame

\* A GoalTracker from new() on, under every call of its methods.
SpecTracker == InitTracker /\ [][NextTracker]_vars

----------------------------------------------------------------------------
(* The actions of tracker/mod.rs that go through the host: put_out_fire,   *)
(* sell_items_in_market and throw_garbage look at the tile beside the      *)
(* robot and hand the put to handle_put; destroy_and_collect_item calls    *)
(* destroy.  Each feeds GoalTracker::update with what the host removed.    *)

\* Option<Tile> as the actions read it: the variant of the tile's content.
NoTileThere == [some |-> FALSE, content |-> ""]
TileWith(content) == [some |-> TRUE, content |-> content]

\* get_tile_in_direction: the entry of robot_view's matrix one step from
\* its centre (None where the host shows no tile, or past the matrix).
get_tile_in_direction(view, direction) ==
    LET center == <<RowCount(view) \div 2, ColCount(view) \div 2>>
        row == CASE direction = "Up" -> center[1] - 1
                 [] direction = "Down" -> center[1] + 1
                 [] OTHER -> center[1]
        col == CASE direction = "Left" -> center[2] - 1
                 [] direction = "Right" -> center[2] + 1
                 [] OTHER -> center[2]
    IN IF <<row, col>> \in DOMAIN view THEN view[<<row, col>>] ELSE NoTileThere

\* A call of the host by an action: the tile robot_view showed beside the
\* robot, or what put / destroy was asked for and answered.
HostCall(call, tile, asked, err, q) ==
    [call |-> call, tile |-> tile, asked |-> asked, err |-> err, q |-> q]
Looked(tile) == HostCall("robot_view", tile, 0, "None", 0)

\* handle_put for the action op: the host's put, then update with the
\* quantity the host reports; the host's error goes back as it came.
HandlePut(op, tile, content_in, quantity, goal_type, host, checked) ==
    /\ hostLog' = <<Looked(tile), HostCall("put", tile, quantity, host.err, host.q)>>
    /\ IF host.err # "None"
       THEN /\ last' = TrackerCall(op, host.err, goal_type, content_in, 0)
            /\ UNCHANGED <<goals, completed_number>>
       ELSE \E run \in { GoalsUpdated(goals, completed_number, "Ok", goal_type,
                                      content_in, host.q, checked) } :
               /\ goals' = run.goals
               /\ completed_number' = run.completed_number
               /\ last' = TrackerCall(op, IF run.res = "panic" THEN "panic" ELSE "Ok",
                                      goal_type, content_in, host.q)

\* An action that returns err after the look at the tile, the host's put
\* not called.
Refused(op, tile, err, goal_type, content_in) ==
    /\ hostLog' = <<Looked(tile)>>
    /\ last' = TrackerCall(op, err, goal_type, content_in, 0)
    /\ UNCHANGED <<goals, completed_number>>

\* put_out_fire: the tile is unwrapped (a panic where there is none) and
\* must hold Fire; then one Water is put.
PutOutFire(view, direction, host, checked) ==
    LET tile == get_tile_in_direction(view, direction)
    IN IF ~tile.some
       THEN Refused("put_out_fire", tile, "panic", "PutOutFire", Some("Water", 0))
       ELSE IF tile.content # "Fire"
       THEN Refused("put_out_fire", tile, "OperationNotAllowed", "PutOutFire",
                    Some("Water", 0))
       ELSE HandlePut("put_out_fire", tile, Some("Water", 0), 1, "PutOutFire",
                      host, checked)

\* sell_items_in_market: a tile that is there must hold a Market; with no
\* tile the check is skipped and the put goes on.
SellItemsInMarket(view, direction, content_in, quantity, host, checked) ==
    LET tile == get_tile_in_direction(view, direction)
    IN IF tile.some /\ tile.content # "Market"
       THEN Refused("sell_items_in_market", tile, "OperationNotAllowed",
                    "SellItems", Some(content_in, quantity))
       ELSE HandlePut("sell_items_in_market", tile, Some(content_in, quantity),
                      quantity, "SellItems", host, checked)

\* throw_garbage: the tile must be there (OutOfBounds otherwise) and hold
\* a Bin.
ThrowGarbage(view, direction, content_in, quantity, host, checked) ==
    LET tile == get_tile_in_direction(view, direction)
    IN IF ~tile.some
       THEN Refused("throw_garbage", tile, "OutOfBounds", "ThrowGarbage",
                    Some(content_in, quantity))
       ELSE IF tile.content # "Bin"
       THEN Refused("throw_garbage", tile, "OperationNotAllowed", "ThrowGarbage",
                    Some(content_in, quantity))
       ELSE HandlePut("throw_garbage", tile, Some(content_in, quantity),
                      quantity, "ThrowGarbage", host, checked)

\* destroy_and_collect_item: the host's destroy, then update of the
\* GetItems goal of item_type with the quantity the host reports.
DestroyAndCollectItem(item_type, host, checked) ==
    /\ hostLog' = <<HostCall("destroy", NoTileThere, 0, host.err, host.q)>>
    /\ IF host.err # "None"
       THEN /\ last' = TrackerCall("destroy_and_collect_item", host.err,
                                   "GetItems", item_type, 0)
            /\ UNCHANGED <<goals, completed_number>>
       ELSE \E run \in { GoalsUpdated(goals, completed_number, "Ok", "GetItems",
                                      item_type, host.q, checked) } :
               /\ goals' = run.goals
               /\ completed_number' = run.completed_number
               /\ last' = TrackerCall("destroy_and_collect_item",
                                      IF run.res = "panic" THEN "panic" ELSE "Ok",
                                      "GetItems", item_type, host.q)

\* What robot_view can show: a 3 x 3 matrix with the robot at its centre,
\* the tile above it holding a content of note or missing (the robot at
\* the rim of the world), the others holding nothing.
ViewContents == {"Fire", "Market", "Bin", "None"}
ViewTiles == { TileWith(c) : c \in ViewContents } \cup {NoTileThere}
Beside(direction) ==
    CASE direction = "Up" -> <<0, 1>>
      [] direction = "Down" -> <<2, 1>>
      [] direction = "Left" -> <<1, 0>>
      [] direction = "Right" -> <<1, 2>>
RobotViews ==
    { [c \in Grid(3, 3) |-> IF c = Beside(d) THEN t ELSE TileWith("None")] :
        d \in {"Up"}, t \in ViewTiles }

\* What put and destroy can answer: an error, or the quantity removed.
HostAnswers == [err : {"NotEnoughEnergy"}, q : {0}] \cup [err : {"None"}, q : {1, 3}]

\* The goals the actions work for and the contents handed to them.
ActionGoals ==
    { GoalNew("f", "PutOutFire", Some("Water", 1), 1),
      GoalNew("s", "SellItems", Some("Rock", 1), 1),
      GoalNew("g", "ThrowGarbage", Some("Garbage", 1), 1),
      GoalNew("r", "GetItems", Some("Rock", 1), 2) }

HostFrame == UNCHANGED <<world, map, pins_location, addLog, sweep>>
                 /\ UNCHANGED pathVars

NextActions ==
    \/ \E goal \in ActionGoals :
          Tracking /\ Len(goals) < MaxGoals /\ AddGoal(goal) /\ UNCHANGED hostLog /\ HostFrame
    \/ \E view \in RobotViews, d \in {"Up", "Left"}, host \in HostAnswers,
          checked \in BOOLEAN :
          /\ Tracking /\ completed_number < MaxCount
          /\ PutOutFire(view, d, host, checked) /\ HostFrame
    \/ \E view \in RobotViews, d \in {"Up", "Left"}, host \in HostAnswers,
          checked \in BOOLEAN :
          /\ Tracking /\ completed_number < MaxCount
          /\ SellItemsInMarket(view, d, "Rock", 1, host, checked) /\ HostFrame
    \/ \E view \in RobotViews, d \in {"Up", "Left"}, host \in HostAnswers,
          checked \in BOOLEAN :
          /\ Tracking /\ completed_number < MaxCount
          /\ ThrowGarbage(view, d, "Garbage", 1, host, checked) /\ HostFrame
    \/ \E item \in UpdateItems, host \in HostAnswers, checked \in BOOLEAN :
          /\ Tracking /\ completed_number < MaxCount
          /\ DestroyAndCollectItem(item, host, checked) /\ HostFrame

\* A GoalTracker worked through the actions that call the host.
SpecActions == InitTracker /\ [][NextActions]_vars

----------------------------------------------------------------------------
(* match_content_type_variant on its own: every pair of arguments.         *)

\* The Option<Content> values compared: None, and three variants with
\* three quantities each.
MatchContents ==
    {Absent} \cup { Some(v, q) : v \in {"Rock", "Tree", "Coin"}, q \in {0, 1, 5} }

\* One call of match_content_type_variant(lhs, rhs).
MatchContentTypeVariant ==
    /\ pstat = "asked"
    /\ req' = [req EXCEPT !.matched = match_content_type_variant(req.lhs, req.rhs)]
    /\ pstat' = "matched"
    /\ UNCHANGED <<pmap, node, route>>

InitMatch ==
    /\ \E lhs \in MatchContents, rhs \in MatchContents :
          req = [lhs |-> lhs, rhs |-> rhs, matched |-> FALSE]
    /\ pmap = <<>>
    /\ node = NoNode
    /\ route = <<>>
    /\ pstat = "asked"
    /\ world = <<>>
    /\ map = <<>>
    /\ pins_location = <<>>
    /\ last = Call("init", "Ok")
    /\ addLog = <<>>
    /\ MapIdle

NextMatch ==
    MatchContentTypeVariant /\ UNCHANGED mapVars
        /\ UNCHANGED <<sweep, hostLog, trackVars>>

\* Every call of match_content_type_variant.
SpecMatch == InitMatch /\ [][NextMatch]_vars

----------------------------------------------------------------------------
(* bob_view, and every way tiles come into a BobMap that carries pins:     *)
(* update, the three wrappers of the host's view calls and auto_update.    *)

\* What robot_view shows around pos: a matrix of three rows and three
\* columns, the robot at its centre, None where the world ends.  seen
\* gives the tile of each cell of the world.
RobotView(pos, seen) ==
    [e \in Grid(3, 3) |->
        LET c == <<pos[1] - 1 + e[1], pos[2] - 1 + e[2]>>
        IN IF c \in DOMAIN seen THEN seen[c] ELSE NoTile]

\* pos - 1 + i as a usize that wraps: 0 - 1 + 0 is usize::MAX, and
\* 0 - 1 + i comes back to i - 1.
WrappingCoord(p, i) == IF p - 1 + i < 0 THEN UsizeMax ELSE p - 1 + i

\* ret of bob_view: each entry of the view with the coordinates computed
\* for it.
BobViewRet(pos, view) ==
    [e \in Grid(3, 3) |->
        [tile |-> view[e],
         x |-> WrappingCoord(pos[1], e[1]),
         y |-> WrappingCoord(pos[2], e[2])]]

\* update_vector of bob_view: the Some entries, row by row.
RECURSIVE BobViewVector(_, _)
BobViewVector(ret, k) ==
    IF k = 9 THEN <<>>
    ELSE LET e == ret[<<k \div 3, k % 3>>]
         IN (IF e.tile # NoTile THEN <<<<e.x, e.y, e.tile>>>> ELSE <<>>)
                \o BobViewVector(ret, k + 1)

\* bob_view with the robot at pos: the coordinates are computed for every
\* entry, None or not, so pos.get_row() - 1 (or get_col() - 1) overflows
\* at row 0 (column 0): a panic in a build with overflow checks, a wrap in
\* one without.
BobView(pos, seen, checked) ==
    /\ pos \in Cells /\ seen \in [Cells -> Tiles]
    /\ hostLog' = <<"None">>
    /\ IF checked /\ (pos[1] = 0 \/ pos[2] = 0)
       THEN /\ last' = [op |-> "bob_view", res |-> "panic", pos |-> pos, ret |-> <<>>]
            /\ UNCHANGED <<world, map, pins_location, addLog>>
       ELSE LET ret == BobViewRet(pos, RobotView(pos, seen))
                run == UpdateRun(map, BobViewVector(ret, 0))
            IN /\ map' = run.map
               /\ last' = [op |-> "bob_view", res |-> run.res, pos |-> pos,
                           ret |-> ret]
               /\ UNCHANGED <<world, pins_location, addLog>>

\* The host's grid: two rows and two columns, so that the robot stands on
\* row 0 or column 0 on three cells and on neither on the fourth; the host
\* has discovered all of it as one tile, or nothing.
InitSync ==
    /\ \E t \in TileOpt : world = [c \in Grid(2, 2) |-> t]
    /\ map = BobMapInit(world)
    /\ pins_location = <<>>
    /\ last = Call("init", "Ok")
    /\ addLog = <<>>
    /\ MapIdle
    /\ PathIdle

\* What the host shows and the batches handed to update: one tile over the
\* whole view, a strip of one tile, one cell discovered, one record.
SyncSeen == { [c \in Cells |-> t] : t \in Tiles }
SyncViews == { h \in HostViews : h.err \in {"None", "NotEnoughEnergy"}
                                    /\ Cardinality(DOMAIN h.view) <= 1 }
SyncDiscoveries == { h \in HostDiscoveries : h.err \in {"None", "NotEnoughEnergy"}
                                                /\ Cardinality(DOMAIN h.found) <= 1 }
SyncBatches == { b \in ViewBatches : Len(b) <= 1 }

SyncFrame == UNCHANGED sweep /\ UNCHANGED <<pathVars, trackVars>>

NextSync ==
    \/ \E pin \in ViewPins, c \in Cells :
          Alive /\ addLog = <<>> /\ AddPin(pin, c) /\ UNCHANGED hostLog /\ SyncFrame
    \/ \E pos \in Cells, seen \in SyncSeen, checked \in BOOLEAN :
          Alive /\ BobView(pos, seen, checked) /\ SyncFrame
    \/ \E pos \in Cells, dir \in Directions, host \in SyncViews, checked \in BOOLEAN :
          Alive /\ BobOneDirectionView(pos, dir, host, checked) /\ SyncFrame
    \/ \E host \in SyncDiscoveries : Alive /\ BobDiscoverTiles(host) /\ SyncFrame
    \/ \E batch \in SyncBatches :
          Alive /\ Update(batch) /\ UNCHANGED hostLog /\ SyncFrame
    \/ Alive /\ AutoUpdate /\ UNCHANGED hostLog /\ SyncFrame

\* A BobMap, one cell of it pinned at most, that takes tiles in every way
\* it can.
SpecSync == InitSync /\ [][NextSync]_vars

----------------------------------------------------------------------------
(* Properties of the pin operations (SpecPins). *)

Range(seq) == { seq[i] : i \in 1 .. Len(seq) }

\* What a scan of the whole grid finds: the cells whose pin equals a.
Holders(a) == { c \in Cells : map[c].pin # NoPin /\ PinEq(map[c].pin, a) }

\* C1: for every annotation a, search_pin(a) returns exactly the set of
\* cells that currently hold a pin equal to a (an absent key counting as the
\* empty set), so no cell whose pin was deleted is returned.
C1_SearchEqualsScan ==
    \A a \in Pins : Range(SearchPin(a).locs) = Holders(a)

\* C2: right after a successful add_pin(a, c), get_pin(c) is a; right after
\* a successful delete_pin(c), get_pin(c) is empty.
C2_GetAfterAddAndDelete ==
    [][\A c \in Cells :
          /\ \A a \in Pins :
                (last' = Call("add_pin", "Ok") /\ AddPin(a, c)) => map'[c].pin = a
          /\ (last' = Call("delete_pin", "Ok") /\ DeletePin(c)) =>
                map'[c].pin = NoPin]_vars

\* C2's case: an add_pin has stored a pin that get_pin returns, and on
\* another cell a delete_pin has succeeded before.
C2_Witness ==
    /\ last = Call("add_pin", "Ok")
    /\ \E c \in Cells : GetPin(c) \in Pins
    /\ \E i \in 1 .. Len(addLog) : GetPin(addLog[i][2]) = NoPin

\* C3: add_pin(b, c) on a cell that already carries a pin returns
\* PinAlreadySet and changes neither the cell's pin nor any cell, nor what
\* search_pin returns for any annotation.
C3_AddOnOccupiedChangesNothing ==
    [][(\E c \in Cells, b \in Pins : map[c].pin # NoPin /\ AddPin(b, c)) =>
          /\ last' = Call("add_pin", "PinAlreadySet")
          /\ \A c \in Cells : map'[c] = map[c]
          /\ pins_location' = pins_location
          /\ \A a \in Pins :
                SearchPinIn(pins_location', a) = SearchPinIn(pins_location, a)]_vars

\* C3's case: an add_pin was refused on a cell that still carries its pin.
C3_Witness ==
    /\ last = Call("add_pin", "PinAlreadySet")
    /\ \E c \in Cells : GetPin(c) \in Pins

\* C4: when delete_pin(c) removes the pin of the last cell holding a, a
\* following search_pin(a) fails with PinNotFound.
C4_LastDeleteDropsKey ==
    [][\A c \in Cells, a \in Pins :
          ( /\ DeletePin(c)
            /\ map[c].pin = a
            /\ Holders(a) = {c} ) =>
              SearchPinIn(pins_location', a).err = "PinNotFound"]_vars

\* C5: no coordinate is listed more than once in search_pin(a), for any a.
C5_NoDuplicateCoordinates ==
    \A a \in Pins :
        LET locs == SearchPin(a).locs
        IN \A i, j \in 1 .. Len(locs) : i # j => locs[i] # locs[j]

\* C6: delete_pin(c) on a cell without a pin returns EmptyTile and leaves
\* every cell's tile and pin and the reverse index unchanged.
C6_DeleteOnEmptyChangesNothing ==
    [][(\E c \in Cells : map[c].pin = NoPin /\ DeletePin(c)) =>
          /\ last' = Call("delete_pin", "EmptyTile")
          /\ \A c \in Cells : map'[c] = map[c]
          /\ pins_location' = pins_location]_vars

\* C6's case: a delete_pin was refused while another cell carries a pin.
C6_Witness ==
    /\ last = Call("delete_pin", "EmptyTile")
    /\ \E c \in Cells : GetPin(c) = NoPin
    /\ \E c \in Cells : GetPin(c) \in Pins

\* The i-th successful add_pin is the one whose pin its cell still carries.
Live(i) ==
    /\ map[addLog[i][2]].pin # NoPin
    /\ \A j \in (i + 1) .. Len(addLog) : addLog[j][2] # addLog[i][2]

\* The cells holding a pin equal to a, in the order their pins were added.
RECURSIVE HoldersInAddOrder(_, _)
HoldersInAddOrder(a, i) ==
    IF i > Len(addLog) THEN <<>>
    ELSE IF PinEq(addLog[i][1], a) /\ Live(i)
         THEN <<addLog[i][2]>> \o HoldersInAddOrder(a, i + 1)
         ELSE HoldersInAddOrder(a, i + 1)

EverAdded(a) == \E i \in 1 .. Len(addLog) : PinEq(addLog[i][1], a)

\* C7: search_pin(a) fails with PinNotFound when no pin equal to a was ever
\* added, and otherwise returns the cells holding a, in the order in which
\* their pins were added.
C7_SearchInAddOrder ==
    \A a \in Pins :
        IF EverAdded(a)
        THEN SearchPin(a) = [err |-> "None", locs |-> HoldersInAddOrder(a, 1)]
        ELSE SearchPin(a).err = "PinNotFound"

\* The index lists cell c under the key of pin p.
ListedUnder(p, c) ==
    /\ ContainsKey(pins_location, p)
    /\ c \in Range(pins_location[StoredKey(pins_location, p)])

\* C8: two Custom pins are equal exactly when they reference the same
\* payload allocation, whatever the content; the index holds one key per
\* allocation, and two cells carrying Custom pins are listed under the same
\* key exactly when their pins reference the same allocation.
C8_CustomComparedByAllocation ==
    /\ \A i, j \in DOMAIN addLog :
          LET a == addLog[i][1]
              b == addLog[j][1]
          IN (a.kind = "Custom" /\ b.kind = "Custom") =>
                 (PinEq(a, b) <=> a.ptr = b.ptr)
    /\ \A k1, k2 \in DOMAIN pins_location :
          (k1.kind = "Custom" /\ k2.kind = "Custom" /\ k1.ptr = k2.ptr) => k1 = k2
    /\ \A c, d \in Cells :
          (map[c].pin.kind = "Custom" /\ map[d].pin.kind = "Custom") =>
              /\ ListedUnder(map[c].pin, c)
              /\ ListedUnder(map[d].pin, d)
              /\ (StoredKey(pins_location, map[c].pin) = StoredKey(pins_location, map[d].pin))
                    <=> (map[c].pin.ptr = map[d].pin.ptr)

----------------------------------------------------------------------------
(* Properties of the resync (SpecTiles). *)

\* C9: auto_update never turns an observed cell into an unobserved one,
\* whatever the host's grid contains.
C9_ResyncNeverDowngrades ==
    [][AutoUpdate =>
          \A c \in Cells : map[c].tile # NoTile => map'[c].tile # NoTile]_vars

\* C9's case: after a resync, a cell the host's grid does not know still
\* carries the tile observed earlier.
C9_Witness ==
    /\ last.op = "auto_update"
    /\ \E c \in Cells : world[c] = NoTile /\ map[c].tile # NoTile

\* C10: with the host's grid unchanged, a second auto_update changes
\* nothing: the view left by a resync is the view a further resync yields.
C10_ResyncIdempotent ==
    last.op = "auto_update" => AutoUpdated(map, world) = map

\* C10's case: a resync has run where the host knows one cell, whose tile
\* the view now carries, and does not know another, which the view has
\* observed by itself.
C10_Witness ==
    /\ last.op = "auto_update"
    /\ \E c, d \in Cells :
          /\ world[c] # NoTile
          /\ map[c].tile = world[c]
          /\ world[d] = NoTile
          /\ map[d].tile # NoTile

----------------------------------------------------------------------------
(* Properties of the parallel resync (SpecResync). *)

\* C11: when the row workers of a resync have all finished, in whatever
\* order their steps interleaved, the grid is exactly the one the sequential
\* sweep AutoUpdated gives from the grid the resync started on, and every
\* cell whose host tile is known carries that tile.
C11_ParallelResyncIsSequential ==
    last = Call("auto_update", "Ok") =>
        /\ map = AutoUpdated(sweep.before, world)
        /\ \A c \in Cells : world[c] # NoTile => map[c].tile = world[c]

\* A resync over two rows of two cells has returned; a worker changed a
\* cell in each row and a cell the host does not know kept its tile.
C11_Witness ==
    /\ last = Call("auto_update", "Ok")
    /\ <<1, 1>> \in Cells
    /\ \A i \in {0, 1} : \E j \in {0, 1} : map[<<i, j>>] # sweep.before[<<i, j>>]
    /\ \E c \in Cells : world[c] = NoTile /\ map[c].tile # NoTile

----------------------------------------------------------------------------
(* Properties of a BobMap with pins and tiles (SpecView). *)

\* C12: immediately after init no cell carries a pin and the reverse index
\* is empty: get_pin is empty on every cell and search_pin fails with
\* PinNotFound for every annotation.
C12_InitHasNoPins ==
    last = Call("init", "Ok") =>
        /\ \A c \in Cells : GetPin(c) = NoPin
        /\ \A a \in Pins : SearchPin(a).err = "PinNotFound"
        /\ pins_location = <<>>

\* A BobMap of two cells or more has just been built anew by a program that
\* had pinned a cell of the one before.
C12_Witness ==
    /\ last = Call("init", "Ok")
    /\ addLog # <<>>
    /\ Cardinality(Cells) > 1

\* The tile the last record of the batch on cell c names.
LastListed(batch, c) ==
    LET on == { i \in 1 .. Len(batch) : <<batch[i][1], batch[i][2]>> = c }
    IN batch[CHOOSE i \in on : \A j \in on : j <= i][3]

Listed(batch, c) == \E i \in 1 .. Len(batch) : <<batch[i][1], batch[i][2]>> = c

\* C14: update with a batch of in-range records returns normally, sets the
\* tile of every listed cell to the tile of the last record that lists it,
\* leaves the tile of every other cell and the pin of every cell as they
\* were, and leaves the reverse index as it was.
C14_UpdateWritesListedTilesOnly ==
    /\ [](\A batch \in ViewBatches : InRange(batch) =>
            LET run == UpdateRun(map, batch)
            IN /\ run.res = "Ok"
               /\ run.map = Updated(map, batch)
               /\ \A c \in Cells :
                     /\ run.map[c].pin = map[c].pin
                     /\ run.map[c].tile = IF Listed(batch, c)
                                          THEN LastListed(batch, c)
                                          ELSE map[c].tile)
    /\ [][last'.op = "update" =>
             /\ pins_location' = pins_location
             /\ addLog' = addLog
             /\ \A c \in Cells : map'[c].pin = map[c].pin]_vars

\* An update has returned on a BobMap that holds a pin on a cell with a
\* tile, beside a cell that is still unobserved.
C14_Witness ==
    /\ last = Call("update", "Ok")
    /\ pins_location # <<>>
    /\ \E c \in Cells : map[c].pin # NoPin /\ map[c].tile # NoTile
    /\ \E c \in Cells : map[c].tile = NoTile

\* C15: update with a batch that holds a record out of range traps, and
\* changes no cell beyond the in-range cells the batch lists: every other
\* tile, every pin and the reverse index stay as they were.
C15_OutOfRangeBatchTraps ==
    /\ [](\A batch \in ViewBatches : ~InRange(batch) =>
            LET run == UpdateRun(map, batch)
            IN /\ run.res = "panic"
               /\ \A c \in Cells :
                     /\ run.map[c].pin = map[c].pin
                     /\ run.map[c].tile # map[c].tile => Listed(batch, c)
               /\ DOMAIN run.map = Cells)
    /\ [][last'.res = "panic" =>
             /\ last'.op = "update"
             /\ pins_location' = pins_location
             /\ \A c \in Cells : map'[c].pin = map[c].pin]_vars

\* An update has trapped on a BobMap with a pin, after the records before
\* the bad one were written: the pinned cell carries a tile.
C15_Witness ==
    /\ last = Call("update", "panic")
    /\ \E c \in Cells : map[c].pin # NoPin /\ map[c].tile # NoTile
    /\ \E c \in Cells : map[c].tile = NoTile

----------------------------------------------------------------------------
(* Properties of init and get_map beside the host (SpecGet). *)

\* C13: immediately after init every cell is unobserved (its tile is
\* empty), whatever the host has discovered.
C13_InitLeavesEveryCellUnobserved ==
    last = Call("init", "Ok") => \A c \in Cells : map[c].tile = NoTile

\* C17: get_map with NoTileUpdated leaves every cell (and the index) as
\* stored, without a resync; get_map with TilesUpdated leaves the grid a
\* resync of the stored one gives, and that is the grid it returns.
C17_GetMapResyncsOnlyOnFlag ==
    [][/\ last'.op = "get_map(NoTileUpdated)" =>
             map' = map /\ pins_location' = pins_location
       /\ last'.op = "get_map(TilesUpdated)" =>
             map' = AutoUpdated(map, world) /\ pins_location' = pins_location]_vars

\* get_map(NoTileUpdated) has returned a grid that a resync would have
\* changed: the host knows a tile the stored grid does not carry.
C17_Witness ==
    /\ last.op = "get_map(NoTileUpdated)"
    /\ \E c \in Cells : world[c] # NoTile /\ map[c].tile # world[c]
    /\ AutoUpdated(map, world) # map

----------------------------------------------------------------------------
(* Properties of the wrappers of the host's view calls (SpecIngest). *)

Wrappers == {"bob_one_direction_view", "bob_discover_tiles"}

\* C16: when the host's one_direction_view or discover_tiles fails, the
\* wrapper returns that very error, after that one host call, and leaves
\* every cell and the reverse index as they were.
C16_HostErrorPassedThrough ==
    [][last'.op \in Wrappers /\ hostLog' # <<>> /\ hostLog'[1] \in LibErrors =>
          /\ Len(hostLog') = 1
          /\ last'.res = hostLog'[1]
          /\ map' = map
          /\ pins_location' = pins_location]_vars

\* A wrapper has returned the host's error on a BobMap that holds a tile
\* and a pin.
C16_Witness ==
    /\ last.op \in Wrappers
    /\ hostLog # <<>>
    /\ hostLog[1] \in LibErrors
    /\ last.res = hostLog[1]
    /\ \E c \in Cells : map[c].tile # NoTile
    /\ \E c \in Cells : map[c].pin # NoPin

----------------------------------------------------------------------------
(* Properties of the search states (SpecSucc). *)

\* The block of successors for the k-th move yields an edge.
HasEdge(k) ==
    \E e \in Range(successors(node, pmap, req.mode, req.relation)) :
        e.dir = Moves[k].dir

\* C18: out of a node there is an edge to a neighbour exactly when
\* get_edge_cost prices the neighbour's tile and the node's energy covers
\* the energy cost, so that no search state has negative energy.
C18_EdgeOnlyWithinEnergy ==
    /\ pstat = "open" => node.energy >= 0
    /\ pstat = "open" /\ ~Traps(node, pmap) =>
          \A k \in DOMAIN Moves :
              LET tile == pmap[Neighbour(node, Moves[k])]
                  cost == get_edge_cost(tile)
              IN HasEdge(k) <=>
                    tile # NoTile /\ cost.some /\ node.energy >= cost.energy

\* C19: a search state reached from a start node with rocks >= 0 has
\* rocks >= 0.
C19_RocksNeverNegative ==
    pstat # "idle" => node.rocks >= 0

\* The caps a path request can name.
RequestCaps == {10, 20}

\* C20: taking an edge leaves energy = energy - energy cost and
\* rocks = min(rocks - rocks delta, cap), cap being the cap the request
\* names (a cap the rocks on hand are within).
C20_RocksClampedToRequestCap ==
    [][\A i \in 1 .. 4 : Expand(i) =>
          /\ node'.energy =
                node.energy - get_edge_cost(pmap[<<node'.x, node'.y>>]).energy
          /\ \A cap \in RequestCaps : node.rocks <= cap =>
                node'.rocks =
                    Min(node.rocks - get_edge_cost(pmap[<<node'.x, node'.y>>]).rocks,
                        cap)]_vars

----------------------------------------------------------------------------
(* Properties of the edge weights (SpecEdge). *)

Abs(v) == IF v < 0 THEN -v ELSE v

\* The integer nearest to a / b (b > 0), the half way case going away from
\* zero.
Nearest(a, b) ==
    CHOOSE k \in -64 .. 64 :
        \/ 2 * Abs(a - k * b) < b
        \/ 2 * Abs(a - k * b) = b /\ Abs(k) * b > Abs(a)

\* The tile the last edge of the route leads onto, and its cost.
LastCost == get_edge_cost(pmap[<<node.x, node.y>>])
LastWeight == route[Len(route)].weight

\* round(energyCost x ratio) and round(materialCost / ratio), signed.
EnergyTerm == Nearest(LastCost.energy * req.num, req.den)
MaterialTerm == Nearest(LastCost.rocks * req.den, req.num)

\* C21: the weight of an edge is round(energyCost x ratio) in EnergySave,
\* round(materialCost / ratio) in MaterialSave and their sum in AllOut, for
\* every terrain, Mountain (materialCost -4) included.
C21_WeightIsRoundedFormula ==
    route # <<>> /\ req.num > 0 =>
        LastWeight =
            CASE req.mode = "EnergySave" -> EnergyTerm
              [] req.mode = "MaterialSave" -> MaterialTerm
              [] req.mode = "AllOut" -> EnergyTerm + MaterialTerm

\* C22: every edge weight handed to the search is non-negative, in every
\* mode and for every terrain.
C22_WeightsNonNegative ==
    \A i \in DOMAIN route : route[i].weight >= 0

\* An edge onto Mountain in MaterialSave, whose rounded material term is
\* negative.
C22_Witness ==
    /\ route # <<>>
    /\ pmap[<<node.x, node.y>>] = "Mountain"
    /\ req.mode = "MaterialSave"
    /\ req.num > 0
    /\ LastWeight = 0

----------------------------------------------------------------------------
(* Properties of the path requests (SpecSearch). *)

MoveOf(d) == Moves[CHOOSE k \in DOMAIN Moves : Moves[k].dir = d]

\* The routes of at most MaxDepth unit steps, as sequences of directions.
Routes ==
    UNION { [1 .. k -> { Moves[j].dir : j \in DOMAIN Moves }] : k \in 0 .. MaxDepth }

\* Section 4.3 of the specification: the state a route leads to from n,
\* each step onto a priced tile inside the grid, paid out of the energy
\* left, the rocks clamped from above and never below zero; ok is FALSE for
\* a route that is not resource-feasible.
RECURSIVE Walk(_, _)
Walk(n, dirs) ==
    IF dirs = <<>> THEN [ok |-> TRUE, node |-> n]
    ELSE LET c == Neighbour(n, MoveOf(Head(dirs)))
         IN IF c \notin DOMAIN pmap THEN [ok |-> FALSE, node |-> n]
            ELSE LET cost == get_edge_cost(pmap[c])
                 IN IF \/ pmap[c] = NoTile
                       \/ ~cost.some
                       \/ n.energy < cost.energy
                       \/ n.rocks - cost.rocks < 0
                    THEN [ok |-> FALSE, node |-> n]
                    ELSE Walk([x |-> c[1], y |-> c[2],
                               energy |-> n.energy - cost.energy,
                               rocks |-> Min(n.rocks - cost.rocks, RocksCap)],
                              Tail(dirs))

\* The total weight of a route that stays inside the grid on priced tiles
\* (sums past usize::MAX count as usize::MAX).
RECURSIVE TotalWeight(_, _)
TotalWeight(c, dirs) ==
    IF dirs = <<>> THEN 0
    ELSE LET to == <<c[1] + MoveOf(Head(dirs)).dx, c[2] + MoveOf(Head(dirs)).dy>>
             w == EdgeWeight(get_edge_cost(pmap[to]), req.mode, req.relation)
             rest == TotalWeight(to, Tail(dirs))
         IN IF w > UsizeMax - rest THEN UsizeMax ELSE w + rest

\* The resource-feasible routes from the start to the target.
FeasibleRoutes ==
    { dirs \in Routes :
        /\ Walk(req.start, dirs).ok
        /\ <<Walk(req.start, dirs).node.x, Walk(req.start, dirs).node.y>> = req.target }

Taken == [i \in DOMAIN route |-> route[i].dir]

\* C23: a route the search returns is a sequence of unit cardinal steps
\* from the start to the target, resource-feasible, and of the least total
\* weight among the resource-feasible routes between the two cells.
C23_RouteIsCheapestFeasible ==
    pstat = "found" =>
        /\ Taken \in FeasibleRoutes
        /\ node = Walk(req.start, Taken).node
        /\ \A dirs \in FeasibleRoutes :
              TotalWeight(<<req.start.x, req.start.y>>, Taken)
                  <= TotalWeight(<<req.start.x, req.start.y>>, dirs)


StartCell == <<req.start.x, req.start.y>>

\* C24: every path request ends, either with a route to the target or,
\* the frontier empty, with Unreachable; when no resource-feasible route
\* leads to the target it ends with Unreachable.
C24_SearchEndsFoundOrUnreachable ==
    pstat # "asked" =>
        /\ pstat \in {"found", "Unreachable"}
        /\ FeasibleRoutes = {} => pstat = "Unreachable"

\* C25: a start state with energy 0 has no successors (every priced tile
\* costs at least 1 energy), and a request from it to another cell fails
\* at once with Unreachable or InsufficientEnergy.
C25_NoEnergyNoSuccessors ==
    pstat # "asked" /\ req.start.energy = 0 /\ req.target # StartCell =>
        /\ ~Traps(req.start, pmap) =>
              successors(req.start, pmap, req.mode, req.relation) = <<>>
        /\ pstat \in {"Unreachable", "InsufficientEnergy"}

\* The request of the example: a grid of 2 x 2 flat tiles, from (0, 0)
\* with energy 10 and rocks 10 to (1, 1), AllOut under the ratio 1.
ExampleRequest ==
    /\ pmap = [c \in Grid(2, 2) |-> "Grass"]
    /\ req = [mode |-> "AllOut", num |-> 1, den |-> 1, relation |-> F64FromInt(1),
              start |-> [x |-> 0, y |-> 0, energy |-> 10, rocks |-> 10],
              target |-> <<1, 1>>]

\* C26: the request of the example returns the route of two steps, one
\* row down to (1, 0) and then one column right to (1, 1), of total weight
\* 2, arriving with energy 8 and rocks 8.
C26_ExampleRoute ==
    ExampleRequest /\ pstat # "asked" =>
        /\ pstat = "found"
        /\ Len(route) = 2
        /\ <<MoveOf(route[1].dir).dx, MoveOf(route[1].dir).dy>> = <<1, 0>>
        /\ <<MoveOf(route[2].dir).dx, MoveOf(route[2].dir).dy>> = <<0, 1>>
        /\ route[1].weight + route[2].weight = 2
        /\ node = [x |-> 1, y |-> 1, energy |-> 8, rocks |-> 8]

----------------------------------------------------------------------------
(* Properties of the relation (SpecRatio). *)

\* C28: costs_relation returns 0 when the energy budget or the material
\* budget is 0, and energy / (materials / divider) otherwise, the quotient
\* of f64 (finite, of the sign of the divider); for example 0 for (0, 10, 2)
\* and for (10, 0, 2), and 4 for (20, 10, 2).
C28_RelationOfBudgets ==
    pstat = "related" =>
        /\ req.energy = 0 \/ req.materials = 0 => req.relation = F64Zero(FALSE)
        /\ req.energy # 0 /\ req.materials # 0 =>
              /\ req.relation.cls = "fin"
              /\ req.relation.neg <=> req.dnum < 0
              /\ req.relation =
                    F64Div(F64FromInt(req.energy),
                           F64Div(F64FromInt(req.materials), F64Ratio(req.dnum, req.dden)))
        /\ req.energy = 20 /\ req.materials = 10 /\ req.dnum = 2 * req.dden =>
              req.relation = F64FromInt(4)

\* The relation of the budgets 20 and 10 under the divider 2 is 4.
C28_Witness ==
    /\ pstat = "related"
    /\ req.energy = 20 /\ req.materials = 10
    /\ req.dnum = 2 /\ req.dden = 1
    /\ req.relation = [cls |-> "fin", neg |-> FALSE, m |-> <<0, 1>>, e |-> 2]

----------------------------------------------------------------------------
(* Properties of the goal tracker (SpecTracker). *)

\* C29: get_completed_number() is the number of goals in the tracker whose
\* completed flag is set, each counted once.
C29_CountIsCompletedGoals ==
    completed_number = Cardinality({ i \in DOMAIN goals : goals[i].completed })

\* The goal at index i is of the type, with an item of the variant, the
\* last update was called with.
Matches(g) ==
    /\ g.goal_type = last'.goal_type
    /\ g.item_type.some /\ last'.item_type.some
    /\ g.item_type.variant = last'.item_type.variant

\* C30: an update (after a successful action, or update_manual) changes
\* only the first goal, in insertion order, of the given type whose item
\* has the given variant; with no such goal, no goal and no count changes.
C30_UpdateChangesFirstMatchOnly ==
    [][last'.op \in {"update", "update_manual"} =>
          /\ Len(goals') = Len(goals)
          /\ \A i \in DOMAIN goals :
                goals'[i] # goals[i] =>
                    /\ Matches(goals[i])
                    /\ \A j \in 1 .. i - 1 : ~Matches(goals[j])
          /\ (\A i \in DOMAIN goals : ~Matches(goals[i])) =>
                completed_number' = completed_number]_vars

\* Two goals for Rock items to get, the first of them updated and the
\* second as it was added.
C30_Witness ==
    /\ last.op \in {"update", "update_manual"}
    /\ last.res = "Ok"
    /\ last.goal_type = "GetItems"
    /\ last.item_type = Some("Rock", 0)
    /\ Len(goals) = 2
    /\ goals[1].name = "a" /\ goals[1].items_left = 1
    /\ goals[2] = GoalNew("b", "GetItems", Some("Rock", 5), 1)


\* C31: a successful action that removes more items than the goal has
\* left leaves the goal with 0 items and completed; items_left never
\* underflows and never grows, through update and through update_manual.
C31_OverRemovalStopsAtZero ==
    [][(last'.op \in {"update", "update_manual"} /\ last'.res # "Err") =>
          /\ last'.res # "panic"
          /\ Len(goals') = Len(goals)
          /\ \A i \in DOMAIN goals :
                /\ goals'[i].items_left <= goals[i].items_left
                /\ ( /\ Matches(goals[i])
                     /\ \A j \in 1 .. i - 1 : ~Matches(goals[j])
                     /\ last'.quantity > goals[i].items_left )
                      => (goals'[i].items_left = 0 /\ goals'[i].completed)]_vars


----------------------------------------------------------------------------
(* Properties of the actions that call the host (SpecActions). *)

GuardedActions == {"put_out_fire", "sell_items_in_market", "throw_garbage"}

\* The content an action needs on the tile beside the robot.
RequiredContent(op) ==
    CASE op = "put_out_fire" -> "Fire"
      [] op = "sell_items_in_market" -> "Market"
      [] op = "throw_garbage" -> "Bin"

\* C32: a guarded action calls the host's put only when the tile beside
\* the robot, in the direction given, holds the content the action needs;
\* in every other case, no tile there included, it returns an error and
\* leaves the goal tracker as it was.
C32_PutOnlyBesideRequiredContent ==
    [][last'.op \in GuardedActions =>
          LET tile == hostLog'[1].tile
              fits == tile.some /\ tile.content = RequiredContent(last'.op)
              put_called == \E k \in DOMAIN hostLog' : hostLog'[k].call = "put"
          IN /\ put_called => fits
             /\ ~fits => /\ last'.res \notin {"Ok", "panic"}
                         /\ UNCHANGED <<goals, completed_number>>]_vars


\* The call of put or destroy the action made, if it made one.
HostAsked(log) ==
    { k \in DOMAIN log : log[k].call \in {"put", "destroy"} }

\* The actions that end in handle_put, and destroy_and_collect_item.
HostActions == GuardedActions \cup {"destroy_and_collect_item"}

\* C33: in every step of an action that calls the host's put or destroy:
\* when the call fails, handle_put and destroy_and_collect_item return the
\* host's error as it came and change no goal and no count; when it
\* succeeds they return the quantity the host reports.
C33_HostAnswerPassedOn ==
    [][last'.op \in HostActions =>
          \A k \in HostAsked(hostLog') :
              IF hostLog'[k].err # "None"
              THEN /\ last'.res = hostLog'[k].err
                   /\ UNCHANGED <<goals, completed_number>>
              ELSE /\ last'.res = "Ok"
                   /\ last'.quantity = hostLog'[k].q]_vars


----------------------------------------------------------------------------
(* Properties of match_content_type_variant (SpecMatch). *)

\* C34: match_content_type_variant(lhs, rhs) is true exactly when both
\* arguments are present and of the same Content variant, whatever the
\* quantities they carry; with either absent, or both, it is false.
C34_MatchIsSameVariant ==
    pstat = "matched" =>
        /\ (~req.lhs.some \/ ~req.rhs.some) => ~req.matched
        /\ (req.lhs.some /\ req.rhs.some) =>
              /\ req.lhs.variant = req.rhs.variant => req.matched
              /\ req.lhs.variant # req.rhs.variant => ~req.matched

\* Two Rocks of different quantities matched.
C34_Witness ==
    /\ pstat = "matched"
    /\ req.lhs = Some("Rock", 1) /\ req.rhs = Some("Rock", 5)
    /\ req.matched


----------------------------------------------------------------------------
(* Properties of the successors at the rim and beside unknown tiles. *)

\* C35: for a node anywhere in the grid, first and last row and column
\* included, successors reads only neighbours inside the grid; it never
\* indexes outside it, the missing neighbours being left out.
C35_SuccessorsStayInGrid ==
    /\ <<node.x, node.y>> \in DOMAIN pmap
    /\ pstat # "panic"


\* C36: successors yields no edge onto a neighbour whose tile is unknown
\* in the snapshot or whose terrain get_edge_cost does not price, so every
\* cell a route enters is an observed tile that can be walked.
C36_EdgesOnlyOntoObservedTiles ==
    /\ route # <<>> =>
          /\ pmap[<<node.x, node.y>>] # NoTile
          /\ get_edge_cost(pmap[<<node.x, node.y>>]).some
    /\ (pstat = "open" /\ ~Traps(node, pmap)) =>
          \A k \in DOMAIN Moves :
              LET tile == pmap[Neighbour(node, Moves[k])]
              IN (tile = NoTile \/ ~get_edge_cost(tile).some) => ~HasEdge(k)

\* A step onto Grass from a node with an unknown tile on one side and a
\* Street, which has no cost, on the other.
C36_Witness ==
    /\ route # <<>>
    /\ pmap[<<0, 1>>] = NoTile
    /\ pmap[<<2, 1>>] = "Street"
    /\ pmap[<<node.x, node.y>>] = "Grass"


----------------------------------------------------------------------------
(* Properties of bob_view and of the ways tiles come in (SpecSync). *)

\* C37: with the robot anywhere in the grid, row 0 and column 0 included,
\* bob_view returns, and gives entry (i, j) of the view the coordinates
\* (row - 1 + i, col - 1 + j), none of them the leftover of an underflow;
\* the entries it writes into the map are observed tiles inside the grid.
C37_BobViewCoordinates ==
    last.op = "bob_view" =>
        /\ last.res = "Ok"
        /\ \A e \in Grid(3, 3) :
              LET x == last.pos[1] - 1 + e[1]
                  y == last.pos[2] - 1 + e[2]
              IN /\ x >= 0 => last.ret[e].x = x
                 /\ y >= 0 => last.ret[e].y = y
                 /\ last.ret[e].x < UsizeMax /\ last.ret[e].y < UsizeMax
                 /\ last.ret[e].tile # NoTile => <<x, y>> \in Cells


\* The calls that bring tiles into the map.
TileIngest ==
    {"update", "auto_update", "bob_view", "bob_one_direction_view",
     "bob_discover_tiles"}

\* C38: update, reached through bob_view, bob_one_direction_view and
\* bob_discover_tiles, and auto_update leave the pin of every cell and the
\* whole reverse index as they were: get_pin and search_pin answer after
\* the call what they answered before it.
C38_IngestLeavesPins ==
    [][last'.op \in TileIngest =>
          /\ \A c \in Cells : GetPin(c)' = GetPin(c)
          /\ \A a \in Pins : SearchPin(a)' = SearchPin(a)
          /\ pins_location' = pins_location]_vars

\* A resync has run over a pinned cell whose tile the host knows, after
\* a wrapper of the host's view calls fed the map; the pin is still found.
C38_Witness ==
    /\ last.op = "auto_update"
    /\ \E c \in Cells : /\ map[c].pin # NoPin
                        /\ world[c] = "Grass" /\ map[c].tile = "Grass"
                        /\ SearchPin(map[c].pin).err = "None"
    /\ hostLog # <<>>


\* C39: with a weight ratio of 0 the weights of MaterialSave and of the
\* balanced mode are still finite and non-negative: the division by the
\* ratio gives no infinite or saturated weight, and the sum of the two
\* terms stays below the top of usize.
C39_ZeroRatioWeightsFinite ==
    (route # <<>> /\ req.num = 0 /\ req.mode \in {"MaterialSave", "AllOut"}) =>
        /\ LastWeight >= 0
        /\ LastWeight < UsizeMax


----------------------------------------------------------------------------
(* Properties of the goals from Goal::new on (SpecTracker). *)

\* C40: a goal made by Goal::new, of any goal_quantity (0 included), and
\* changed through the tracker only is completed exactly when its
\* items_left is 0, in every state; a completed goal stays completed.
C40_CompletedIffNothingLeft ==
    /\ [](\A i \in DOMAIN goals : goals[i].completed <=> goals[i].items_left = 0)
    /\ [][last'.op \in {"update", "update_manual"} =>
             \A i \in DOMAIN goals : goals[i].completed => goals'[i].completed]_vars
====
